---- MODULE Spec2Model ----
(***************************************************************************)
(* Model of the exception detection and escalation engine                  *)
(* (src/src/services/exception_monitor.py, class ExceptionMonitor) and of  *)
(* the sqlite store it reads and appends to (src/src/utils/database.py).   *)
(*                                                                         *)
(* Scheduling.  start_monitoring is a coroutine: several invocations run   *)
(* as asyncio tasks on one event-loop thread.  A task runs without         *)
(* interleaving until it awaits (the POST at line 286, the sleep at line   *)
(* 407); `cur` names the task that holds the thread, 0 when the event loop *)
(* is idle.  stop_monitoring is a plain method run by some other callback, *)
(* so it runs only when no task holds the thread.  The sqlite file is      *)
(* outside the process: each connection or query either succeeds or        *)
(* raises, chosen at the step that makes it.  The other writers of the     *)
(* shipments table act while the event loop is idle: the monitor sees them *)
(* only through its next read.  The clock counts whole minutes: it moves   *)
(* while a task sleeps (line 407) and stands still within a cycle, whose   *)
(* awaits are bounded by the 30 s timeout of line 269.                     *)
(*                                                                         *)
(* Units.  Confidences are percent (0.70 is 70), temperatures are tenths   *)
(* of a degree (5.0 is 50), times are whole minutes (72 hours is 4320, and *)
(* hours_overdue is kept in minutes).  A nullable column is a             *)
(* set: {} is NULL, {v} is the value v.  A function returning Optional is  *)
(* a sequence: <<>> is None, <<r>> is the record r.                        *)
(*                                                                         *)
(* Lines 409-411 of start_monitoring (the one-minute sleep) run only when  *)
(* run_once or asyncio.sleep raises an Exception.  run_once catches every  *)
(* Exception itself (line 381) and asyncio.sleep of a number raises none,  *)
(* so the branch has no transition here.                                   *)
(***************************************************************************)
EXTENDS Integers, Sequences, FiniteSets, TLC

VARIABLES
    running,        \* ExceptionMonitor.running
    last_run_time,  \* ExceptionMonitor.last_run_time: {} is None, {t} a time
    total_runs,     \* ExceptionMonitor.total_runs
    loop,           \* per start_monitoring invocation: its position and locals
    cur,            \* the invocation holding the event-loop thread, 0 if none
    db_shipments,   \* table shipments, in rowid order
    db_containers,  \* table containers
    db_milestones,  \* table milestones
    db_runs,        \* table exception_monitor_runs, in insertion order
    now,            \* the wall clock, in minutes
    cycles,         \* history: number of run_once calls begun so far
    hist,           \* history, per invocation, of its current cycle
    delay_predictor,\* server.py global: <<>> is None, <<"DelayPredictor">> loaded
    started,        \* history: startup_event has run
    warning,        \* history: the last call of proactive_delay_warning
    scores,         \* history: the last calls of _generate_recommendation
    analysis        \* history: the last call of _analyze_risk_factors

vars == <<running, last_run_time, total_runs, loop, cur, db_shipments,
          db_containers, db_milestones, db_runs, now, cycles, hist,
          delay_predictor, started, warning, scores, analysis>>

monitorVars == <<running, last_run_time, total_runs>>
storeVars == <<db_shipments, db_containers, db_milestones>>
serverVars == <<delay_predictor, started, warning, scores, analysis>>

----------------------------------------------------------------------------
(* Bounds of the model. *)

MaxCalls == 2       \* invocations of start_monitoring
MaxCycles == 2      \* scan cycles begun by one invocation

Calls == 1..MaxCalls
Intervals == {1, 5}             \* interval_minutes arguments tried (5 is the default)
\* A POST's outcome: a status code, or 0 when the transport raised.
Statuses == {200, 202, 500, 0}

----------------------------------------------------------------------------
(* Thresholds, exception_monitor.py lines 31-34. *)

DELAY_THRESHOLD_HOURS == 24
ML_CONFIDENCE_THRESHOLD == 70
TEMP_DEVIATION_THRESHOLD == 50
MILESTONE_DELAY_THRESHOLD_HOURS == 72
MinutesPerHour == 60

Abs(x) == IF x < 0 THEN -x ELSE x

----------------------------------------------------------------------------
(* The detector battery, exception_monitor.py lines 70-255.  Each check    *)
(* returns <<>> (None) or <<record>>.                                      *)

\* Least element of a non-empty set of integers.
Least(S) == CHOOSE i \in S : \A j \in S : i <= j

\* Mutant: the thresholds are inclusive.
check_delay_exception_Inclusive(shipment) ==
    IF shipment.delay_hours = {} THEN <<>>
    ELSE LET delay_hours == CHOOSE d \in shipment.delay_hours : TRUE IN
         IF delay_hours >= DELAY_THRESHOLD_HOURS
         THEN <<[type |-> "delay",
                 severity |-> IF delay_hours >= 48 THEN "high" ELSE "medium",
                 message |-> <<"Shipment delayed by hours", delay_hours>>,
                 delay_hours |-> delay_hours]>>
         ELSE <<>>

\* _check_delay_exception.  A NULL delay_hours makes `None > 24` raise
\* TypeError, which line 90 catches: None is returned.
check_delay_exception(shipment) ==
    IF shipment.delay_hours = {} THEN <<>>
    ELSE LET delay_hours == CHOOSE d \in shipment.delay_hours : TRUE IN
         IF delay_hours > DELAY_THRESHOLD_HOURS
         THEN <<[type |-> "delay",
                 severity |-> IF delay_hours > 48 THEN "high" ELSE "medium",
                 message |-> <<"Shipment delayed by hours", delay_hours>>,
                 delay_hours |-> delay_hours]>>
         ELSE <<>>

\* Mutant: the thresholds are inclusive.
check_ml_prediction_Inclusive(shipment) ==
    IF shipment.ml_delay_confidence = {} THEN <<>>
    ELSE LET ml_confidence == CHOOSE c \in shipment.ml_delay_confidence : TRUE IN
         IF ml_confidence >= ML_CONFIDENCE_THRESHOLD
         THEN <<[type |-> "ml_prediction",
                 severity |-> IF ml_confidence >= 85 THEN "high" ELSE "medium",
                 message |-> <<"ML predicts delay with confidence", ml_confidence>>,
                 ml_confidence |-> ml_confidence,
                 predicted_delay_hours |->
                     IF shipment.predicted_delay_hours = {} THEN 24
                     ELSE CHOOSE h \in shipment.predicted_delay_hours : TRUE]>>
         ELSE <<>>

\* _check_ml_prediction.  {} is a row without the column (get() gives 0) or
\* with NULL in it (TypeError, caught at line 116): no finding either way.
check_ml_prediction(shipment) ==
    IF shipment.ml_delay_confidence = {} THEN <<>>
    ELSE LET ml_confidence == CHOOSE c \in shipment.ml_delay_confidence : TRUE IN
         IF ml_confidence > ML_CONFIDENCE_THRESHOLD
         THEN <<[type |-> "ml_prediction",
                 severity |-> IF ml_confidence > 85 THEN "high" ELSE "medium",
                 message |-> <<"ML predicts delay with confidence", ml_confidence>>,
                 ml_confidence |-> ml_confidence,
                 predicted_delay_hours |->
                     IF shipment.predicted_delay_hours = {} THEN 24
                     ELSE CHOOSE h \in shipment.predicted_delay_hours : TRUE]>>
         ELSE <<>>

\* Mutant: the loop keeps the last container out of range.
check_temperature_deviation_Last(shipment, up, containers) ==
    IF ~up THEN <<>>
    ELSE LET hits == {i \in 1..Len(containers) :
                        /\ containers[i].shipment_id = shipment.id
                        /\ containers[i].container_type = "reefer"
                        /\ containers[i].current_temp # {}
                        /\ containers[i].target_temp # {}
                        /\ Abs((CHOOSE c \in containers[i].current_temp : TRUE)
                               - (CHOOSE g \in containers[i].target_temp : TRUE))
                             > TEMP_DEVIATION_THRESHOLD}
         IN IF hits = {} THEN <<>>
            ELSE LET container == containers[CHOOSE i \in hits : \A j \in hits : j <= i]
                     current == CHOOSE c \in container.current_temp : TRUE
                     target == CHOOSE g \in container.target_temp : TRUE
                     deviation == Abs(current - target)
                 IN <<[type |-> "temperature_deviation",
                       severity |-> "high",
                       message |-> <<"temperature deviation of container",
                                     container.container_id, deviation>>,
                       container_id |-> container.container_id,
                       current_temp |-> current,
                       target_temp |-> target,
                       deviation |-> deviation]>>

\* _check_temperature_deviation.  The SELECT keeps the shipment's reefer
\* containers; the loop returns at the first one out of range.  A failed
\* connection or query raises inside the try: None.
check_temperature_deviation(shipment, up, containers) ==
    IF ~up THEN <<>>
    ELSE LET hits == {i \in 1..Len(containers) :
                        /\ containers[i].shipment_id = shipment.id
                        /\ containers[i].container_type = "reefer"
                        /\ containers[i].current_temp # {}
                        /\ containers[i].target_temp # {}
                        /\ Abs((CHOOSE c \in containers[i].current_temp : TRUE)
                               - (CHOOSE g \in containers[i].target_temp : TRUE))
                             > TEMP_DEVIATION_THRESHOLD}
         IN IF hits = {} THEN <<>>
            ELSE LET container == containers[Least(hits)]
                     current == CHOOSE c \in container.current_temp : TRUE
                     target == CHOOSE g \in container.target_temp : TRUE
                     deviation == Abs(current - target)
                 IN <<[type |-> "temperature_deviation",
                       severity |-> "high",
                       message |-> <<"temperature deviation of container",
                                     container.container_id, deviation>>,
                       container_id |-> container.container_id,
                       current_temp |-> current,
                       target_temp |-> target,
                       deviation |-> deviation]>>

\* _check_geofence_violation.
check_geofence_violation(shipment) ==
    IF shipment.geofence_violation
    THEN <<[type |-> "geofence_violation",
            severity |-> "high",
            message |-> <<"Shipment outside expected route">>,
            current_location |-> shipment.current_location]>>
    ELSE <<>>

\* Mutant: the SELECT has no ORDER BY, the rows come in rowid order.
check_missing_milestones_RowOrder(shipment, up, milestones, clock) ==
    IF ~up THEN <<>>
    ELSE LET late == {i \in 1..Len(milestones) :
                        /\ milestones[i].shipment_id = shipment.id
                        /\ milestones[i].actual_time = {}
                        /\ milestones[i].expected_time # {}
                        /\ clock - (CHOOSE e \in milestones[i].expected_time : TRUE)
                             > MILESTONE_DELAY_THRESHOLD_HOURS * MinutesPerHour}
             exp(i) == CHOOSE e \in milestones[i].expected_time : TRUE
         IN IF late = {} THEN <<>>
            ELSE LET first == Least(late)
                     hours_late == clock - exp(first)
                 IN <<[type |-> "missing_milestone",
                       severity |-> "medium",
                       message |-> <<"Milestone overdue by hours",
                                     milestones[first].milestone_name, hours_late>>,
                       milestone_name |-> milestones[first].milestone_name,
                       hours_overdue |-> hours_late]>>

\* _check_missing_milestones.  The SELECT keeps the shipment's milestones
\* with NULL actual_time, ordered by expected_time (equal times in rowid
\* order); rows without expected_time are skipped; the loop returns at the
\* first row more than 72 hours late.  hours_late is in minutes.
check_missing_milestones(shipment, up, milestones, clock) ==
    IF ~up THEN <<>>
    ELSE LET late == {i \in 1..Len(milestones) :
                        /\ milestones[i].shipment_id = shipment.id
                        /\ milestones[i].actual_time = {}
                        /\ milestones[i].expected_time # {}
                        /\ clock - (CHOOSE e \in milestones[i].expected_time : TRUE)
                             > MILESTONE_DELAY_THRESHOLD_HOURS * MinutesPerHour}
             exp(i) == CHOOSE e \in milestones[i].expected_time : TRUE
         IN IF late = {} THEN <<>>
            ELSE LET first == Least({i \in late : \A j \in late : exp(i) <= exp(j)})
                     hours_late == clock - exp(first)
                 IN <<[type |-> "missing_milestone",
                       severity |-> "medium",
                       message |-> <<"Milestone overdue by hours",
                                     milestones[first].milestone_name, hours_late>>,
                       milestone_name |-> milestones[first].milestone_name,
                       hours_overdue |-> hours_late]>>

\* Line 411: the sleep of the loop's own except clause, in seconds.
CooldownSeconds == 60

\* Mutant: the id is read under a key the row does not have (None, here 0).
Stamp_WrongKey(result, shipment, clock) ==
    IF result = <<>> THEN <<>>
    ELSE <<[shipment_id |-> 0, detected_at |-> clock] @@ result[1]>>

\* Lines 248-251: a finding gets the shipment's id and the detection time.
Stamp(result, shipment, clock) ==
    IF result = <<>> THEN <<>>
    ELSE <<[shipment_id |-> shipment.id, detected_at |-> clock] @@ result[1]>>

\* Mutant: a finding whose delivery was already tried in the cycle before is
\* not reported again.
detect_exceptions_Dedup(shipment, up_c, up_m, containers, milestones, clock) ==
    SelectSeq(
        Stamp(check_delay_exception(shipment), shipment, clock)
        \o Stamp(check_ml_prediction(shipment), shipment, clock)
        \o Stamp(check_temperature_deviation(shipment, up_c, containers), shipment, clock)
        \o Stamp(check_geofence_violation(shipment), shipment, clock)
        \o Stamp(check_missing_milestones(shipment, up_m, milestones, clock), shipment, clock),
        LAMBDA e : cur = 0 \/ <<e.shipment_id, e.type>> # hist[cur].prev_failed)

\* Mutant: the monitor remembers the findings of the cycle before and does
\* not report them again.
detect_exceptions_Remembering(shipment, up_c, up_m, containers, milestones, clock) ==
    SelectSeq(
        Stamp(check_delay_exception(shipment), shipment, clock)
        \o Stamp(check_ml_prediction(shipment), shipment, clock)
        \o Stamp(check_temperature_deviation(shipment, up_c, containers), shipment, clock)
        \o Stamp(check_geofence_violation(shipment), shipment, clock)
        \o Stamp(check_missing_milestones(shipment, up_m, milestones, clock), shipment, clock),
        LAMBDA e : cur = 0 \/ \A i \in 1..Len(hist[cur].prev_exceptions) :
                                  <<e.shipment_id, e.type>>
                                      # <<hist[cur].prev_exceptions[i].shipment_id,
                                          hist[cur].prev_exceptions[i].type>>)

\* Mutant: a finding made again in the next cycle is given severity high.
detect_exceptions_Escalating(shipment, up_c, up_m, containers, milestones, clock) ==
    LET found ==
            Stamp(check_delay_exception(shipment), shipment, clock)
            \o Stamp(check_ml_prediction(shipment), shipment, clock)
            \o Stamp(check_temperature_deviation(shipment, up_c, containers), shipment, clock)
            \o Stamp(check_geofence_violation(shipment), shipment, clock)
            \o Stamp(check_missing_milestones(shipment, up_m, milestones, clock),
                     shipment, clock)
    IN [i \in 1..Len(found) |->
          IF cur # 0 /\ \E k \in 1..Len(hist[cur].prev_exceptions) :
                            /\ hist[cur].prev_exceptions[k].shipment_id = found[i].shipment_id
                            /\ hist[cur].prev_exceptions[k].type = found[i].type
          THEN [found[i] EXCEPT !.severity = "high"]
          ELSE found[i]]

\* Mutant: the checks on the shipment's row come before those on the other
\* tables.
detect_exceptions_RowChecksFirst(shipment, up_c, up_m, containers, milestones, clock) ==
    Stamp(check_delay_exception(shipment), shipment, clock)
    \o Stamp(check_ml_prediction(shipment), shipment, clock)
    \o Stamp(check_geofence_violation(shipment), shipment, clock)
    \o Stamp(check_temperature_deviation(shipment, up_c, containers), shipment, clock)
    \o Stamp(check_missing_milestones(shipment, up_m, milestones, clock), shipment, clock)

\* Mutant: an exception raised by a check ends the evaluation of the
\* shipment, and the findings made before it are lost.
detect_exceptions_AbortOnRaise(shipment, up_c, up_m, containers, milestones, clock) ==
    IF shipment.delay_hours = {} \/ ~up_c \/ ~up_m THEN <<>>
    ELSE Stamp(check_delay_exception(shipment), shipment, clock)
         \o Stamp(check_ml_prediction(shipment), shipment, clock)
         \o Stamp(check_temperature_deviation(shipment, up_c, containers), shipment, clock)
         \o Stamp(check_geofence_violation(shipment), shipment, clock)
         \o Stamp(check_missing_milestones(shipment, up_m, milestones, clock), shipment, clock)

\* _detect_exceptions: the five checks in the order of the list at line 237.
detect_exceptions(shipment, up_c, up_m, containers, milestones, clock) ==
    Stamp(check_delay_exception(shipment), shipment, clock)
    \o Stamp(check_ml_prediction(shipment), shipment, clock)
    \o Stamp(check_temperature_deviation(shipment, up_c, containers), shipment, clock)
    \o Stamp(check_geofence_violation(shipment), shipment, clock)
    \o Stamp(check_missing_milestones(shipment, up_m, milestones, clock), shipment, clock)

----------------------------------------------------------------------------
(* The store: rows the tables can hold.  A store is built from a sequence  *)
(* of shipment profiles; the shipment at position i has id i.              *)

ContainerIds == <<"RF-1", "RF-2", "RF-3", "RF-4">>

\* delay 50 h, model confidence 0.90, off route: three findings from the row.
LateShipment(i) ==
    [id |-> i, status |-> "in_transit", delay_hours |-> {50},
     ml_delay_confidence |-> {90}, predicted_delay_hours |-> {},
     geofence_violation |-> TRUE, current_location |-> "Suez"]
\* nothing wrong in the row itself; its container and milestone are.
ReeferShipment(i) ==
    [id |-> i, status |-> "in_transit", delay_hours |-> {0},
     ml_delay_confidence |-> {}, predicted_delay_hours |-> {},
     geofence_violation |-> FALSE, current_location |-> "Rotterdam"]
\* off route, and delay_hours is NULL: the delay check raises and is caught.
OffRouteShipment(i) ==
    [id |-> i, status |-> "in_transit", delay_hours |-> {},
     ml_delay_confidence |-> {}, predicted_delay_hours |-> {},
     geofence_violation |-> TRUE, current_location |-> "Malacca"]
\* delivered, with a delay still on record.
DeliveredShipment(i) ==
    [id |-> i, status |-> "delivered", delay_hours |-> {30},
     ml_delay_confidence |-> {}, predicted_delay_hours |-> {},
     geofence_violation |-> FALSE, current_location |-> "Hamburg"]

Profiles == {"late", "reefer", "offroute", "delivered"}

ShipmentRow(profile, i) ==
    CASE profile = "late" -> LateShipment(i)
      [] profile = "reefer" -> ReeferShipment(i)
      [] profile = "offroute" -> OffRouteShipment(i)
      [] OTHER -> DeliveredShipment(i)

\* -12.0 against a target of -18.0.
ContainerRows(profile, i) ==
    IF profile = "reefer"
    THEN <<[shipment_id |-> i, container_id |-> ContainerIds[i],
            current_temp |-> {-120}, target_temp |-> {-180},
            container_type |-> "reefer"]>>
    ELSE <<>>

\* expected 100 hours (6000 minutes) before the clock's origin, not reached.
MilestoneRows(profile, i) ==
    IF profile = "reefer"
    THEN <<[shipment_id |-> i, milestone_name |-> "departed origin",
            expected_time |-> {-6000}, actual_time |-> {}]>>
    ELSE <<>>

RECURSIVE Flatten(_, _, _)
Flatten(Rows(_, _), profiles, i) ==
    IF i > Len(profiles) THEN <<>>
    ELSE Rows(profiles[i], i) \o Flatten(Rows, profiles, i + 1)

\* The stores tried: empty; one late shipment (three findings); one reefer
\* shipment (two findings, both read from other tables); a delivered
\* shipment before a late one; two active shipments.
Stores ==
    {<<>>, <<"late">>, <<"reefer">>, <<"delivered", "late">>, <<"offroute", "reefer">>}

----------------------------------------------------------------------------
(* The state after construction, __init__ lines 46-51, before any call.    *)

IdleLoop ==
    [pc |-> "idle", interval_minutes |-> 0, sleep |-> 0, start_time |-> 0,
     shipments |-> <<>>, n |-> 0, all_exceptions |-> <<>>,
     notifications_sent |-> 0, k |-> 0, result |-> <<>>]

\* History of one invocation's current cycle: its number, how often each record's POST
\* was issued, how many POSTs answered 200, one failed delivery of this cycle
\* that is being followed (<<>> or <<shipment_id, type>>) and the one followed
\* from the cycle before, whether the reads of the cycle all succeeded,
\* which detectors the history noted to raise on which shipment (pairs
\* <<position, type>>),
\* whether the INSERT did, whether stop_monitoring ran since the invocation
\* started, and the record whose POST was awaited when stop_monitoring
\* first ran during the cycle (0: it did not); and, where the history keeps
\* them, the exception list of the cycle before and whether its reads all
\* succeeded.
NoHist ==
    [cycle |-> 0, attempts |-> <<>>, ok |-> 0, failed |-> <<>>, prev_failed |-> <<>>,
     fetch_failed |-> FALSE, reads_ok |-> TRUE, raised |-> {}, logged |-> FALSE,
     stopped |-> FALSE, stop_in_cycle |-> 0,
     prev_exceptions |-> <<>>, prev_reads_ok |-> TRUE]

\* The process before startup_event and before any call of the monitor:
\* the caller makes the invocations in `callers`, the others are never
\* made; server.py line 47 sets delay_predictor to None.
ProcessInit(callers) ==
    /\ running = FALSE
    /\ last_run_time = {}
    /\ total_runs = 0
    /\ loop = [l \in Calls |->
                 IF l \in callers THEN IdleLoop ELSE [IdleLoop EXCEPT !.pc = "unused"]]
    /\ cur = 0
    /\ db_runs = <<>>
    /\ now = 0
    /\ cycles = 0
    /\ hist = [l \in Calls |-> NoHist]
    /\ delay_predictor = <<>>
    /\ started = FALSE
    /\ warning = <<>>
    /\ scores = <<>>
    /\ analysis = <<>>

InitWith(stores, callers) ==
    /\ ProcessInit(callers)
    /\ \E profiles \in stores :
          /\ db_shipments = [i \in 1..Len(profiles) |-> ShipmentRow(profiles[i], i)]
          /\ db_containers = Flatten(ContainerRows, profiles, 1)
          /\ db_milestones = Flatten(MilestoneRows, profiles, 1)

\* One invocation of start_monitoring, over every store.
Init == InitWith(Stores, {1})

----------------------------------------------------------------------------
(* Helpers of run_once and start_monitoring.                               *)

\* Mutant: a failed query falls back to rows read earlier.
get_active_shipments_Stale(up, rows) ==
    SelectSeq(rows, LAMBDA s : s.status # "delivered")

\* Mutant: every row is monitored, delivered or not.
get_active_shipments_All(up, rows) ==
    IF up THEN rows ELSE <<>>

\* _get_active_shipments, lines 60-68: the rows whose status is not
\* 'delivered'; any failure of the query is caught and gives [].
get_active_shipments(up, rows) ==
    IF up THEN SelectSeq(rows, LAMBDA s : s.status # "delivered") ELSE <<>>

\* Mutant: any 2xx response counts.
IsSuccess_Any2xx(status) == status >= 200 /\ status < 300

\* Line 292: the response that counts as a sent notification.
IsSuccess(status) == status = 200

\* Mutant: the dispatcher gives up at the first failed delivery.
AfterPost_AbortOnFailure(k, len, status) ==
    IF status # 200 THEN "record" ELSE IF k < len THEN "post" ELSE "record"

\* Mutant: the dispatcher drops the remaining deliveries once the monitor
\* has been stopped.
AfterPost_StopAware(k, len, status) ==
    IF ~running THEN "record" ELSE IF k < len THEN "post" ELSE "record"

\* Mutant: the dispatcher returns once the first POST has been answered.
AfterPost_FirstOnly(k, len, status) == "record"

\* Lines 270, 301: after the POST for record k of len records, the for loop
\* goes on to the next record, whatever the outcome, or ends.
AfterPost(k, len, status) == IF k < len THEN "post" ELSE "record"

\* Mutant: the loop ends after a cycle that returned an error.
LoopContinues_UntilError(l) ==
    running /\ (IF loop[l].result = <<>> THEN TRUE
                ELSE "error" \notin DOMAIN loop[l].result[1])

\* Line 402: the while test of invocation l.
LoopContinues(l) == running

\* Line 407: the sleep after a call of run_once, in seconds.
IntervalSleep(interval_minutes) == interval_minutes * 60

\* Line 358 / 388: int((time.time() - start_time) * 1000), the clock in minutes.
DurationMs(clock, start) == (clock - start) * 60000

\* Mutant: exceptions_found counts the shipments that have a finding.
RunData_CountShipments(clock, start, all_exceptions, shipments, notifications_sent) ==
    [timestamp |-> clock,
     exceptions_found |->
         Cardinality({all_exceptions[i].shipment_id : i \in 1..Len(all_exceptions)}),
     shipments_checked |-> Len(shipments),
     notifications_sent |-> notifications_sent,
     duration_ms |-> (clock - start) * 60000]

\* Lines 361-367: the statistics of a completed cycle.
RunData(clock, start, all_exceptions, shipments, notifications_sent) ==
    [timestamp |-> clock,
     exceptions_found |-> Len(all_exceptions),
     shipments_checked |-> Len(shipments),
     notifications_sent |-> notifications_sent,
     duration_ms |-> DurationMs(clock, start)]

\* Mutant: the error statistics count the shipments as checked.
ErrorData_CountsChecked(clock, start) ==
    [timestamp |-> clock,
     exceptions_found |-> 0,
     shipments_checked |-> 1,
     notifications_sent |-> 0,
     duration_ms |-> (clock - start) * 60000,
     error |-> "httpx.AsyncClient"]

\* Lines 383-390: what run_once returns from its except clause.
ErrorData(clock, start) ==
    [timestamp |-> clock,
     exceptions_found |-> 0,
     shipments_checked |-> 0,
     notifications_sent |-> 0,
     duration_ms |-> DurationMs(clock, start),
     error |-> "httpx.AsyncClient"]

\* Mutant: the table keeps the latest run only.
log_run_to_database_Latest(up, runs, run_data) ==
    IF up
    THEN <<[run_timestamp |-> run_data.timestamp,
            exceptions_found |-> run_data.exceptions_found,
            shipments_checked |-> run_data.shipments_checked,
            notifications_sent |-> run_data.notifications_sent,
            run_duration_ms |-> run_data.duration_ms]>>
    ELSE runs

\* _log_run_to_database, lines 310-327: one INSERT; a failure is caught and
\* logged, and the table is left as it was.
log_run_to_database(up, runs, run_data) ==
    IF up
    THEN Append(runs, [run_timestamp |-> run_data.timestamp,
                       exceptions_found |-> run_data.exceptions_found,
                       shipments_checked |-> run_data.shipments_checked,
                       notifications_sent |-> run_data.notifications_sent,
                       run_duration_ms |-> run_data.duration_ms])
    ELSE runs

\* Mutant: a failed INSERT reaches run_once's except clause.
ReturnedStats_Propagates(up, run_data, error_data) ==
    IF up THEN run_data ELSE error_data

\* Lines 370-379: _log_run_to_database returns normally whether or not the
\* INSERT succeeded, so run_once returns run_data.
ReturnedStats(up, run_data, error_data) == run_data

\* Mutant: a run is counted only when its row was written.
CountRun_OnlyLogged(up, runs) == IF up THEN runs + 1 ELSE runs

\* Line 374, reached whether or not the INSERT succeeded.
CountRun(up, runs) == runs + 1

\* The checks whose try block raises on the shipment at position n: the
\* comparison of a NULL delay_hours (line 83), the containers query (lines
\* 132-140), the milestones query (lines 195-204).
Raised(shipment, n, up_c, up_m) ==
    {<<n, "delay">> : x \in {1} \cap (IF shipment.delay_hours = {} THEN {1} ELSE {})}
    \cup {<<n, "temperature_deviation">> : x \in {1} \cap (IF up_c THEN {} ELSE {1})}
    \cup {<<n, "missing_milestone">> : x \in {1} \cap (IF up_m THEN {} ELSE {1})}

\* Mutant: the checks write their finding into the shipment dictionary.
ShipmentAfterDetect_Stamped(shipment) ==
    [detected_at |-> 0] @@ shipment

\* Lines 70-255: the checks only call shipment.get(), and lines 249-250
\* assign into the finding: the dictionary is as it was.
ShipmentAfterDetect(shipment) == shipment

Active(l) == loop[l].pc \notin {"unused", "idle", "returned"}
InCycle(l) == loop[l].pc \in {"run_once", "detect", "post", "await_post", "record"}
Key(exception) == <<exception.shipment_id, exception.type>>

----------------------------------------------------------------------------
(* start_monitoring, lines 392-411, and run_once, lines 329-390, as the    *)
(* steps of invocation l.                                                  *)

\* Lines 399-400: the call sets the flag and reaches the while test.
StartMonitoring(l, m) ==
    /\ cur = 0
    /\ loop[l].pc = "idle"
    /\ running' = TRUE
    /\ loop' = [loop EXCEPT ![l].pc = "while", ![l].interval_minutes = m]
    /\ cur' = l
    /\ UNCHANGED <<serverVars, last_run_time, total_runs, storeVars, db_runs, now, cycles, hist>>

\* Line 402 true, line 404, line 336: run_once is entered.  `keep` is
\* whether the history keeps the exception list of the cycle before.
EnterCycle(l, keep) ==
    /\ cur = l
    /\ loop[l].pc = "while"
    /\ LoopContinues(l)
    /\ loop' = [loop EXCEPT ![l] =
                  [IdleLoop EXCEPT !.pc = "run_once",
                                   !.interval_minutes = loop[l].interval_minutes,
                                   !.start_time = now]]
    /\ cycles' = cycles + 1
    /\ hist' = [hist EXCEPT ![l] = [NoHist EXCEPT !.cycle = hist[l].cycle + 1,
                                                  !.stopped = hist[l].stopped,
                                                  !.prev_failed = hist[l].failed,
                                                  !.prev_exceptions =
                                                      IF keep THEN loop[l].all_exceptions
                                                      ELSE <<>>,
                                                  !.prev_reads_ok =
                                                      IF keep THEN hist[l].reads_ok
                                                      ELSE TRUE]]
    /\ UNCHANGED <<serverVars, monitorVars, cur, storeVars, db_runs, now>>

\* Line 402 false: the coroutine returns.
ExitLoop(l) ==
    /\ cur = l
    /\ loop[l].pc = "while"
    /\ ~LoopContinues(l)
    /\ loop' = [loop EXCEPT ![l].pc = "returned"]
    /\ cur' = 0
    /\ UNCHANGED <<serverVars, monitorVars, storeVars, db_runs, now, cycles, hist>>

\* Line 342; `up` is whether query_shipments succeeds.
GetActiveShipments(l, up) ==
    /\ cur = l
    /\ loop[l].pc = "run_once"
    /\ loop' = [loop EXCEPT ![l].pc = "detect",
                            ![l].shipments = get_active_shipments(up, db_shipments),
                            ![l].n = 1,
                            ![l].all_exceptions = <<>>]
    /\ hist' = [hist EXCEPT ![l].fetch_failed = ~up, ![l].reads_ok = up]
    /\ UNCHANGED <<serverVars, monitorVars, cur, storeVars, db_runs, now, cycles>>

\* Lines 346-348, one shipment; up_c and up_m are whether the containers
\* and the milestones queries succeed, `note` is whether the history notes
\* the checks that raise.
DetectShipment(l, up_c, up_m, note) ==
    /\ cur = l
    /\ loop[l].pc = "detect"
    /\ loop[l].n <= Len(loop[l].shipments)
    /\ loop' = [loop EXCEPT
                  ![l].all_exceptions =
                      @ \o detect_exceptions(loop[l].shipments[loop[l].n], up_c, up_m,
                                             db_containers, db_milestones, now),
                  ![l].shipments[loop[l].n] = ShipmentAfterDetect(@),
                  ![l].n = @ + 1]
    /\ hist' = [hist EXCEPT ![l].reads_ok = @ /\ up_c /\ up_m,
                            ![l].raised =
                                IF note
                                THEN @ \cup Raised(loop[l].shipments[loop[l].n],
                                                   loop[l].n, up_c, up_m)
                                ELSE @]
    /\ UNCHANGED <<serverVars, monitorVars, cur, storeVars, db_runs, now, cycles>>

\* Lines 353-354 with an empty list: the dispatcher is not called.
NoExceptions(l) ==
    /\ cur = l
    /\ loop[l].pc = "detect"
    /\ loop[l].n > Len(loop[l].shipments)
    /\ loop[l].all_exceptions = <<>>
    /\ loop' = [loop EXCEPT ![l].pc = "record", ![l].notifications_sent = 0]
    /\ UNCHANGED <<serverVars, monitorVars, cur, storeVars, db_runs, now, cycles, hist>>

\* Lines 353-355, 267-270: the dispatcher is entered and its client opens.
OpenClient(l) ==
    /\ cur = l
    /\ loop[l].pc = "detect"
    /\ loop[l].n > Len(loop[l].shipments)
    /\ loop[l].all_exceptions # <<>>
    /\ loop' = [loop EXCEPT ![l].pc = "post", ![l].notifications_sent = 0,
                            ![l].k = 1]
    /\ hist' = [hist EXCEPT ![l].attempts =
                  [i \in 1..Len(loop[l].all_exceptions) |-> 0]]
    /\ UNCHANGED <<serverVars, monitorVars, cur, storeVars, db_runs, now, cycles>>

\* Line 269 raises (it is outside the try of line 271): run_once's except
\* clause, lines 381-390, returns the error statistics, and the loop sleeps
\* at line 407.
ClientFails(l) ==
    /\ cur = l
    /\ loop[l].pc = "detect"
    /\ loop[l].n > Len(loop[l].shipments)
    /\ loop[l].all_exceptions # <<>>
    /\ loop' = [loop EXCEPT ![l].pc = "sleep",
                            ![l].notifications_sent = 0,
                            ![l].result = <<ErrorData(now, loop[l].start_time)>>,
                            ![l].sleep = IntervalSleep(loop[l].interval_minutes)]
    /\ cur' = 0
    /\ UNCHANGED <<serverVars, monitorVars, storeVars, db_runs, now, cycles, hist>>

\* Lines 271-290: the POST for record k is issued and awaited.
Post(l) ==
    /\ cur = l
    /\ loop[l].pc = "post"
    /\ loop' = [loop EXCEPT ![l].pc = "await_post"]
    /\ hist' = [hist EXCEPT ![l].attempts[loop[l].k] = @ + 1]
    /\ cur' = 0
    /\ UNCHANGED <<serverVars, monitorVars, storeVars, db_runs, now, cycles>>

\* Lines 286-299: the awaited POST ends with a status or raises (status 0);
\* the for loop moves to the next record or ends (line 301).  `follow` is
\* whether the history follows this delivery, if it failed.
PostReturns(l, status, follow) ==
    /\ cur = 0
    /\ loop[l].pc = "await_post"
    /\ loop' = [loop EXCEPT
                  ![l].notifications_sent = IF IsSuccess(status) THEN @ + 1 ELSE @,
                  ![l].k = @ + 1,
                  ![l].pc = AfterPost(loop[l].k, Len(loop[l].all_exceptions), status)]
    /\ hist' = [hist EXCEPT
                  ![l].ok = IF status = 200 THEN @ + 1 ELSE @,
                  ![l].failed = IF status # 200 /\ follow
                                THEN Key(loop[l].all_exceptions[loop[l].k]) ELSE @]
    /\ cur' = l
    /\ UNCHANGED <<serverVars, monitorVars, storeVars, db_runs, now, cycles>>

\* Lines 357-379, then line 407: the statistics are built, logged and
\* returned, and the loop sleeps for the interval; `up` is whether the
\* INSERT succeeds.
Record(l, up) ==
    /\ cur = l
    /\ loop[l].pc = "record"
    /\ LET run_data == RunData(now, loop[l].start_time, loop[l].all_exceptions,
                               loop[l].shipments, loop[l].notifications_sent)
       IN /\ db_runs' = log_run_to_database(up, db_runs, run_data)
          /\ loop' = [loop EXCEPT ![l].pc = "sleep",
                                  ![l].result =
                                      <<ReturnedStats(up, run_data,
                                                      ErrorData(now, loop[l].start_time))>>,
                                  ![l].sleep = IntervalSleep(loop[l].interval_minutes)]
    /\ last_run_time' = {now}
    /\ total_runs' = CountRun(up, total_runs)
    /\ hist' = [hist EXCEPT ![l].logged = up]
    /\ cur' = 0
    /\ UNCHANGED <<serverVars, running, storeVars, now, cycles>>

\* The sleep of line 407 ends, its minutes later; control is back at the
\* while test.
Wake(l) ==
    /\ cur = 0
    /\ loop[l].pc = "sleep"
    /\ hist[l].cycle < MaxCycles
    /\ loop' = [loop EXCEPT ![l].pc = "while", ![l].sleep = 0]
    /\ now' = now + loop[l].sleep \div 60
    /\ cur' = l
    /\ UNCHANGED <<serverVars, monitorVars, storeVars, db_runs, cycles, hist>>

\* stop_monitoring, lines 413-416.
StopMonitoring ==
    /\ cur = 0
    /\ running' = FALSE
    /\ hist' = [l \in Calls |->
                  [hist[l] EXCEPT !.stopped = @ \/ Active(l),
                                  !.stop_in_cycle =
                                      IF InCycle(l) /\ @ = 0 THEN loop[l].k ELSE @]]
    /\ UNCHANGED <<serverVars, last_run_time, total_runs, loop, cur, storeVars, db_runs, now,
                   cycles>>

----------------------------------------------------------------------------
(* The environment: the other writers of the shipments table.             *)

\* Another service marks shipment i delivered.
ShipmentDelivered(i) ==
    /\ cur = 0
    /\ i \in 1..Len(db_shipments)
    /\ db_shipments[i].status # "delivered"
    /\ db_shipments' = [db_shipments EXCEPT ![i].status = "delivered"]
    /\ UNCHANGED <<serverVars, monitorVars, loop, cur, db_containers, db_milestones,
                   db_runs, now, cycles, hist>>

----------------------------------------------------------------------------
(* The rest of the process: the server's startup (server.py) and the       *)
(* proactive delay warning (services/notification_service.py).             *)

\* notification_service.py line 393, in percent.
CONFIDENCE_THRESHOLD == 70

\* server.py lines 106-121, before the monitor is used: the models are
\* loaded, or DelayPredictor() raises and the except clause of line 119
\* logs it; delay_predictor then stays None and startup goes on.
StartupEvent(loads) ==
    /\ cur = 0
    /\ ~started
    /\ \A l \in Calls : loop[l].pc \in {"idle", "unused"}
    /\ started' = TRUE
    /\ delay_predictor' = IF loads THEN <<"DelayPredictor">> ELSE <<>>
    /\ UNCHANGED <<monitorVars, loop, cur, storeVars, db_runs, now, cycles, hist,
                   warning, scores, analysis>>

\* proactive_delay_warning, lines 372-449.  ml_prediction_data is <<>>
\* (None or empty) or <<risk score>>; `sends` is whether lines 405-429 (the
\* shipment query and send_status_update) run without raising.
proactive_delay_warning(shipment_id, ml_prediction_data, sends) ==
    IF ml_prediction_data = <<>>
    THEN [success |-> FALSE, shipment_id |-> shipment_id, warning_sent |-> FALSE,
          reason |-> "No ML prediction data available"]
    ELSE LET will_delay == ml_prediction_data[1].will_delay
             confidence == ml_prediction_data[1].confidence
         IN IF ~will_delay \/ confidence < CONFIDENCE_THRESHOLD
            THEN [success |-> TRUE, shipment_id |-> shipment_id,
                  warning_sent |-> FALSE, reason |-> "below threshold",
                  ml_confidence |-> confidence]
            ELSE IF sends
            THEN [success |-> TRUE, shipment_id |-> shipment_id,
                  warning_sent |-> TRUE, ml_confidence |-> confidence]
            ELSE [success |-> FALSE, shipment_id |-> shipment_id,
                  warning_sent |-> FALSE, error |-> "send_status_update"]

\* The risk scores a caller passes: will_delay, and the confidence of the
\* prediction in percent (a missing key reads as False, 0.0).
RiskScores == [will_delay : BOOLEAN, confidence : {0, 69, 70, 71, 86}]

\* A call of proactive_delay_warning for a shipment.
ProactiveDelayWarning(shipment_id, ml_prediction_data, sends) ==
    /\ cur = 0
    /\ warning' = <<[shipment_id |-> shipment_id,
                     ml_prediction_data |-> ml_prediction_data,
                     result |-> proactive_delay_warning(shipment_id,
                                                        ml_prediction_data, sends)]>>
    /\ UNCHANGED <<monitorVars, loop, cur, storeVars, db_runs, now, cycles, hist,
                   delay_predictor, started, scores, analysis>>

----------------------------------------------------------------------------
(* The risk score, ml/delay_predictor.py.  Probabilities are in units of   *)
(* 0.0001 (0.80 is 8000), the factors of the feature vector in percent.    *)

\* round(x, n) and format(x, ".0f") on a value of x units, to units of d:
\* the nearest multiple, a tie going to the even one.
RoundHalfEven(x, d) ==
    LET q == x \div d
        r == x % d
    IN IF 2 * r < d THEN q
       ELSE IF 2 * r > d THEN q + 1
       ELSE IF q % 2 = 0 THEN q ELSE q + 1

\* extract_features, lines 113-143: the twelve features, by name.  The
\* shipment data carry the risk flag and the month and weekday of the etd
\* (or of today, lines 100-108); the encoded categoricals are left at 0.
extract_features(shipment_data) ==
    LET seasonal_factors == <<5, 15, 10, 2, 0, 0, 3, 5, 8, 12, 10, 8>>
        weekday_factors == [d \in 0..6 |->
                               CASE d = 0 -> 2 [] d = 1 -> 1 [] d = 2 -> 0 [] d = 3 -> 1
                                 [] d = 4 -> 3 [] OTHER -> 5]
    IN [origin_encoded |-> 0, dest_encoded |-> 0, carrier_encoded |-> 0,
        carrier_reliability |-> 88,
        month |-> shipment_data.etd[1],
        day_of_week |-> shipment_data.etd[2],
        transit_days |-> 20,
        container_encoded |-> 0,
        risk_flag |-> IF shipment_data.risk_flag THEN 1 ELSE 0,
        base_delay_rate |-> 20,
        seasonal_factor |-> seasonal_factors[shipment_data.etd[1]],
        weekday_factor |-> weekday_factors[shipment_data.etd[2]]]

\* Mutant: no generic factor.
analyze_risk_factors_NoFallback(shipment_data, features) ==
    (IF shipment_data.risk_flag THEN <<"High-risk shipment flagged">> ELSE <<>>)
    \o (IF features.seasonal_factor > 8
        THEN <<"Peak shipping season (higher congestion)">> ELSE <<>>)
    \o (IF features.weekday_factor > 3
        THEN <<"Weekend port operations (slower processing)">> ELSE <<>>)
    \o (IF features.transit_days > 30
        THEN <<"Long-haul route (higher delay risk)">> ELSE <<>>)
    \o (IF features.carrier_reliability < 85
        THEN <<"Carrier with lower reliability score">> ELSE <<>>)

\* _analyze_risk_factors, lines 212-240.
analyze_risk_factors(shipment_data, features) ==
    LET risk_factors ==
            (IF shipment_data.risk_flag THEN <<"High-risk shipment flagged">> ELSE <<>>)
            \o (IF features.seasonal_factor > 8
                THEN <<"Peak shipping season (higher congestion)">> ELSE <<>>)
            \o (IF features.weekday_factor > 3
                THEN <<"Weekend port operations (slower processing)">> ELSE <<>>)
            \o (IF features.transit_days > 30
                THEN <<"Long-haul route (higher delay risk)">> ELSE <<>>)
            \o (IF features.carrier_reliability < 85
                THEN <<"Carrier with lower reliability score">> ELSE <<>>)
    IN IF risk_factors = <<>> THEN <<"Historical route performance analysis">>
       ELSE risk_factors

\* Mutant: the text quotes the confidence.
generate_recommendation_QuotesConfidence(will_delay, confidence, delay_probability, risk_factors) ==
    IF will_delay
    THEN IF confidence > 8000
         THEN <<"HIGH RISK", RoundHalfEven(confidence, 100), "chance of delay.",
                "Consider: notify customer, alternative routing, monitor closely">>
         ELSE IF confidence > 6000
         THEN <<"MODERATE RISK", RoundHalfEven(confidence, 100), "chance of delay.",
                "Recommend increased monitoring and customer communication.">>
         ELSE <<"POSSIBLE DELAY", RoundHalfEven(confidence, 100), "chance.",
                "Continue normal monitoring.">>
    ELSE IF confidence > 9000
         THEN <<"Low delay risk - shipment on track for on-time delivery.">>
         ELSE <<"Moderate confidence in on-time delivery - continue monitoring.">>

\* _generate_recommendation, lines 242-272: the text as the sequence of its
\* parts; f"{delay_probability*100:.0f}%" is the probability in whole
\* percent.
generate_recommendation(will_delay, confidence, delay_probability, risk_factors) ==
    IF will_delay
    THEN IF confidence > 8000
         THEN <<"HIGH RISK", RoundHalfEven(delay_probability, 100), "chance of delay.",
                "Consider: notify customer, alternative routing, monitor closely">>
         ELSE IF confidence > 6000
         THEN <<"MODERATE RISK", RoundHalfEven(delay_probability, 100), "chance of delay.",
                "Recommend increased monitoring and customer communication.">>
         ELSE <<"POSSIBLE DELAY", RoundHalfEven(delay_probability, 100), "chance.",
                "Continue normal monitoring.">>
    ELSE IF confidence > 9000
         THEN <<"Low delay risk - shipment on track for on-time delivery.">>
         ELSE <<"Moderate confidence in on-time delivery - continue monitoring.">>

\* One call of _generate_recommendation: its arguments and its text, and
\* the confidence predict() reports with it, round(confidence, 3) in units
\* of 0.001.
Score(will_delay, confidence, delay_probability, risk_factors) ==
    [will_delay |-> will_delay,
     confidence |-> confidence,
     delay_probability |-> delay_probability,
     risk_factors |-> risk_factors,
     reported_confidence |-> RoundHalfEven(confidence, 10),
     recommendation |-> generate_recommendation(will_delay, confidence,
                                                delay_probability, risk_factors)]

\* The history after a call: the call, after the one before it if `keep`.
Scored(score, keep) ==
    IF keep /\ scores # <<>> THEN <<scores[Len(scores)], score>> ELSE <<score>>

\* predict, lines 163-200, as the endpoint of server.py lines 214-233
\* reaches it (503 without a predictor).  The forest of
\* training/train_delay_model.py gives the probability p1 of class 1 and
\* predicts the class of the larger probability, class 0 on a tie.
Predict(shipment_data, p1, keep) ==
    /\ cur = 0
    /\ delay_predictor # <<>>
    /\ LET features == extract_features(shipment_data)
           probabilities == <<10000 - p1, p1>>
           prediction == IF p1 > 10000 - p1 THEN 1 ELSE 0
           will_delay == prediction = 1
           delay_probability == probabilities[2]
           confidence == IF probabilities[1] >= probabilities[2]
                         THEN probabilities[1] ELSE probabilities[2]
           risk_factors == analyze_risk_factors(shipment_data, features)
       IN /\ scores' = Scored(Score(will_delay, confidence, delay_probability,
                                    risk_factors), keep)
          /\ analysis' = <<[shipment_data |-> shipment_data, features |-> features,
                            risk_factors |-> risk_factors]>>
    /\ UNCHANGED <<monitorVars, loop, cur, storeVars, db_runs, now, cycles, hist,
                   delay_predictor, started, warning>>

\* _analyze_risk_factors applied to shipment data and a feature vector.
AnalyzeRiskFactors(shipment_data, features) ==
    /\ cur = 0
    /\ delay_predictor # <<>>
    /\ analysis' = <<[shipment_data |-> shipment_data, features |-> features,
                      risk_factors |-> analyze_risk_factors(shipment_data, features)]>>
    /\ UNCHANGED <<monitorVars, loop, cur, storeVars, db_runs, now, cycles, hist,
                   delay_predictor, started, warning, scores>>

\* _generate_recommendation applied to its four arguments.
GenerateRecommendation(will_delay, confidence, delay_probability, risk_factors) ==
    /\ cur = 0
    /\ delay_predictor # <<>>
    /\ scores' = Scored(Score(will_delay, confidence, delay_probability, risk_factors),
                        TRUE)
    /\ UNCHANGED <<monitorVars, loop, cur, storeVars, db_runs, now, cycles, hist,
                   delay_predictor, started, warning, analysis>>

\* The steps of invocation l that run on the event-loop thread.
Run(l) ==
    \/ EnterCycle(l, FALSE)
    \/ ExitLoop(l)
    \/ \E up \in BOOLEAN : GetActiveShipments(l, up)
    \/ \E up_c, up_m \in BOOLEAN : DetectShipment(l, up_c, up_m, FALSE)
    \/ NoExceptions(l)
    \/ OpenClient(l)
    \/ ClientFails(l)
    \/ Post(l)
    \/ \E up \in BOOLEAN : Record(l, up)
    \/ Wake(l)

Next ==
    \/ \E l \in Calls, m \in Intervals : StartMonitoring(l, m)
    \/ \E l \in Calls : Run(l)
    \/ \E l \in Calls, status \in Statuses : PostReturns(l, status, FALSE)
    \/ StopMonitoring
    \/ \E i \in 1..Len(db_shipments) : ShipmentDelivered(i)

Spec == Init /\ [][Next]_vars

\* The same steps, with the history following one failed delivery of a cycle
\* into the next cycle, over a store of row findings and a store of two
\* active shipments.
RetryNext ==
    \/ \E l \in Calls, m \in Intervals : StartMonitoring(l, m)
    \/ \E l \in Calls : Run(l)
    \/ \E l \in Calls, status \in Statuses, follow \in BOOLEAN :
          PostReturns(l, status, follow)
    \/ StopMonitoring
    \/ \E i \in 1..Len(db_shipments) : ShipmentDelivered(i)

RetryInit == InitWith({<<"late">>, <<"offroute", "reefer">>}, {1})
RetrySpec == RetryInit /\ [][RetryNext]_vars

\* start_monitoring is invoked again on the same monitor, over one store.
RestartInit == InitWith({<<"offroute">>}, Calls)
RestartSpec == RestartInit /\ [][Next]_vars

\* What the event loop guarantees an invocation once it is started: a ready
\* task is run, an awaited POST ends (a response, or the 30 s timeout of
\* line 269), a sleep ends.
Advance(l) == Run(l) \/ \E status \in Statuses : PostReturns(l, status, FALSE)

\* One invocation, over the store whose findings are read from the
\* containers and milestones tables.
LiveInit == InitWith({<<"reefer">>}, {1})
LiveSpec == LiveInit /\ [][Next]_vars /\ \A l \in Calls : WF_vars(Advance(l))

\* The detector battery on its own: one cycle of one invocation with the
\* default interval, every POST answered 200, over stores whose last
\* shipment takes every combination of the values below; the history notes
\* the checks that raise.
DelayInputs == {{}, {0}, {24}, {25}, {48}, {49}, {50}}
ConfidenceInputs == {{}, {69}, {70}, {71}, {85}, {86}}

ProbeShipment(i, delay_hours, ml_delay_confidence, geofence_violation) ==
    [id |-> i, status |-> "in_transit", delay_hours |-> delay_hours,
     ml_delay_confidence |-> ml_delay_confidence, predicted_delay_hours |-> {},
     geofence_violation |-> geofence_violation, current_location |-> "Suez"]

DetectInit ==
    /\ ProcessInit({1})
    /\ \E first \in {<<>>, <<"offroute">>}, attached \in {"late", "reefer"},
          d \in DelayInputs, c \in ConfidenceInputs, g \in BOOLEAN :
          LET i == Len(first) + 1 IN
          /\ db_shipments =
                [j \in 1..Len(first) |-> ShipmentRow(first[j], j)]
                \o <<ProbeShipment(i, d, c, g)>>
          /\ db_containers = ContainerRows(attached, i)
          /\ db_milestones = MilestoneRows(attached, i)

DetectNext ==
    \/ \E l \in Calls : StartMonitoring(l, 5)
    \/ \E l \in Calls : EnterCycle(l, FALSE)
    \/ \E l \in Calls, up \in BOOLEAN : GetActiveShipments(l, up)
    \/ \E l \in Calls, up_c, up_m \in BOOLEAN : DetectShipment(l, up_c, up_m, TRUE)
    \/ \E l \in Calls : NoExceptions(l)
    \/ \E l \in Calls : OpenClient(l)
    \/ \E l \in Calls : Post(l)
    \/ \E l \in Calls : PostReturns(l, 200, FALSE)
    \/ \E l \in Calls : Record(l, TRUE)

DetectSpec == DetectInit /\ [][DetectNext]_vars

\* The two escalation paths of the risk score side by side: the server
\* starts with or without its models, the monitor runs one cycle over a
\* shipment with each confidence, and proactive_delay_warning is called
\* for that shipment with each risk score.
MlInit ==
    /\ ProcessInit({1})
    /\ \E c \in ConfidenceInputs :
          db_shipments = <<ProbeShipment(1, {0}, c, FALSE)>>
    /\ db_containers = <<>>
    /\ db_milestones = <<>>

MlNext ==
    \/ \E loads \in BOOLEAN : StartupEvent(loads)
    \/ \E data \in {<<>>} \cup {<<r>> : r \in RiskScores}, sends \in BOOLEAN :
          ProactiveDelayWarning(1, data, sends)
    \/ DetectNext

MlSpec == MlInit /\ [][MlNext]_vars

\* The two detectors that read other tables, over two consecutive cycles of
\* one invocation: an active shipment with nothing wrong in its row before
\* a late one, and every pair of the container and milestone tables below.
\* Every POST is answered 200, unless the client fails to open.  No other
\* writer touches the store; the history notes the checks that raise and
\* keeps the exception list of the cycle before.
Container(shipment_id, container_id, container_type, current_temp, target_temp) ==
    [shipment_id |-> shipment_id, container_id |-> container_id,
     current_temp |-> current_temp, target_temp |-> target_temp,
     container_type |-> container_type]

\* Shipment 1: a deviation of exactly 5.0; of 5.1; -12.0 against -18.0; too
\* cold by 6.0; a dry container far off; a reefer without a reading; a reefer
\* in range before two out of range, and one of shipment 2 out of range.
ContainerTables ==
    {<<>>,
     <<Container(1, "RF-1", "reefer", {-130}, {-180})>>,
     <<Container(1, "RF-1", "reefer", {-129}, {-180})>>,
     <<Container(1, "RF-1", "reefer", {-120}, {-180})>>,
     <<Container(1, "RF-1", "reefer", {-240}, {-180})>>,
     <<Container(1, "DV-1", "dry", {200}, {-180})>>,
     <<Container(1, "RF-1", "reefer", {}, {-180})>>,
     <<Container(1, "RF-1", "reefer", {-170}, {-180}),
       Container(1, "RF-2", "reefer", {-120}, {-180}),
       Container(1, "RF-3", "reefer", {-100}, {-180}),
       Container(2, "RF-4", "reefer", {-110}, {-180})>>}

Milestone(shipment_id, milestone_name, expected_time, actual_time) ==
    [shipment_id |-> shipment_id, milestone_name |-> milestone_name,
     expected_time |-> expected_time, actual_time |-> actual_time]

\* Shipment 1: expected exactly 72 hours before the clock's origin; a minute
\* more; 100 hours before; 100 hours before and reached; no expected time;
\* two overdue, the later-expected one first in the table, and one of
\* shipment 2 overdue.
MilestoneTables ==
    {<<>>,
     <<Milestone(1, "gate in", {-4320}, {})>>,
     <<Milestone(1, "gate in", {-4321}, {})>>,
     <<Milestone(1, "departed origin", {-6000}, {})>>,
     <<Milestone(1, "departed origin", {-6000}, {-5990})>>,
     <<Milestone(1, "customs", {}, {})>>,
     <<Milestone(1, "loaded", {-5000}, {}),
       Milestone(1, "gate in", {-6000}, {}),
       Milestone(2, "gate in", {-4400}, {})>>}

TableInit ==
    /\ ProcessInit({1})
    /\ db_shipments = <<ProbeShipment(1, {0}, {}, FALSE), LateShipment(2)>>
    /\ db_containers \in ContainerTables
    /\ db_milestones \in MilestoneTables

TableNext ==
    \/ \E l \in Calls : StartMonitoring(l, 5)
    \/ \E l \in Calls : EnterCycle(l, TRUE)
    \/ \E l \in Calls, up \in BOOLEAN : GetActiveShipments(l, up)
    \/ \E l \in Calls, up_c, up_m \in BOOLEAN : DetectShipment(l, up_c, up_m, TRUE)
    \/ \E l \in Calls : NoExceptions(l)
    \/ \E l \in Calls : OpenClient(l)
    \/ \E l \in Calls : ClientFails(l)
    \/ \E l \in Calls : Post(l)
    \/ \E l \in Calls : PostReturns(l, 200, FALSE)
    \/ \E l \in Calls : Record(l, TRUE)
    \/ \E l \in Calls : Wake(l)

TableSpec == TableInit /\ [][TableNext]_vars

\* The dispatcher on its own: one cycle of one invocation, every outcome of
\* every POST, over no shipment at all, over two shipments without a
\* finding, and over two shipments with seven findings (all five on the
\* second).
DispatchInit ==
    /\ ProcessInit({1})
    /\ \/ /\ db_shipments = <<>>
          /\ db_containers = <<>>
          /\ db_milestones = <<>>
       \/ /\ db_shipments = <<ProbeShipment(1, {0}, {}, FALSE), LateShipment(2)>>
          /\ db_containers =
                <<Container(1, "RF-1", "reefer", {-170}, {-180}),
                  Container(1, "RF-2", "reefer", {-120}, {-180}),
                  Container(1, "RF-3", "reefer", {-100}, {-180}),
                  Container(2, "RF-4", "reefer", {-110}, {-180})>>
          /\ db_milestones =
                <<Milestone(1, "loaded", {-5000}, {}),
                  Milestone(1, "gate in", {-6000}, {}),
                  Milestone(2, "gate in", {-4400}, {})>>
       \/ /\ db_shipments = <<ProbeShipment(1, {0}, {}, FALSE),
                               ProbeShipment(2, {24}, {70}, FALSE)>>
          /\ db_containers = <<>>
          /\ db_milestones = <<>>

DispatchNext ==
    \/ \E l \in Calls, m \in Intervals : StartMonitoring(l, m)
    \/ \E l \in Calls : EnterCycle(l, FALSE)
    \/ \E l \in Calls, up \in BOOLEAN : GetActiveShipments(l, up)
    \/ \E l \in Calls, up_c, up_m \in BOOLEAN : DetectShipment(l, up_c, up_m, FALSE)
    \/ \E l \in Calls : NoExceptions(l)
    \/ \E l \in Calls : OpenClient(l)
    \/ \E l \in Calls : ClientFails(l)
    \/ \E l \in Calls : Post(l)
    \/ \E l \in Calls, status \in Statuses : PostReturns(l, status, FALSE)
    \/ \E l \in Calls, up \in BOOLEAN : Record(l, up)
    \/ StopMonitoring

DispatchSpec == DispatchInit /\ [][DispatchNext]_vars

\* The risk score on its own, with no shipment in the store.  The shipment
\* data tried: the risk flag, and an etd in February, May or September on
\* a Wednesday, Friday or Saturday.
ShipmentData == [risk_flag : BOOLEAN, etd : {<<2, 5>>, <<5, 2>>, <<9, 4>>}]

\* Probabilities of class 1 tried, around 0.50 and around the limits of
\* the bands on either side; none is a tie of either rounding.
ClassOneProbabilities ==
    {999, 1000, 4000, 5000, 5001, 6000, 6001, 8000, 8001, 8046, 8054, 9500}

ScoreInit ==
    /\ ProcessInit({})
    /\ db_shipments = <<>>
    /\ db_containers = <<>>
    /\ db_milestones = <<>>

\* The risk factors of predict() and of _analyze_risk_factors on feature
\* vectors on both sides of each of its limits.
FeatureVectors ==
    {[extract_features([risk_flag |-> FALSE, etd |-> <<5, 2>>])
         EXCEPT !.seasonal_factor = s, !.weekday_factor = w,
                !.transit_days = d, !.carrier_reliability = r] :
        s \in {0, 8, 12}, w \in {0, 3, 5}, d \in {20, 30, 31}, r \in {84, 85, 88}}

RiskNext ==
    \/ \E loads \in BOOLEAN : StartupEvent(loads)
    \/ \E shipment_data \in ShipmentData, p1 \in {4000, 8001} :
          Predict(shipment_data, p1, FALSE)
    \/ \E shipment_data \in {s \in ShipmentData : s.etd = <<5, 2>>},
          features \in FeatureVectors :
          AnalyzeRiskFactors(shipment_data, features)

RiskSpec == ScoreInit /\ [][RiskNext]_vars

\* The recommendations of two calls side by side: of predict() on either
\* side of each band limit, and of _generate_recommendation with a delay
\* probability of its own.
Confidences == {6000, 8001, 9001}
DelayProbabilities == {7000, 9001}
RiskFactorLists ==
    {<<"Historical route performance analysis">>,
     <<"High-risk shipment flagged", "Peak shipping season (higher congestion)">>}

RecommendNext ==
    \/ \E loads \in BOOLEAN : StartupEvent(loads)
    \/ \E shipment_data \in {s \in ShipmentData : s.etd = <<5, 2>>},
          p1 \in ClassOneProbabilities :
          Predict(shipment_data, p1, TRUE)
    \/ \E will_delay \in BOOLEAN, confidence \in Confidences,
          delay_probability \in DelayProbabilities, risk_factors \in RiskFactorLists :
          GenerateRecommendation(will_delay, confidence, delay_probability, risk_factors)

RecommendSpec == ScoreInit /\ [][RecommendNext]_vars

----------------------------------------------------------------------------
(* Properties.                                                             *)

\* A call of run_once by l has returned and its locals are still in place.
Finished(l) == loop[l].pc \in {"sleep", "while", "returned"} /\ loop[l].result # <<>>
Errored(l) == Finished(l) /\ "error" \in DOMAIN loop[l].result[1]
Completed(l) == Finished(l) /\ "error" \notin DOMAIN loop[l].result[1]
AllAttemptedOnce(l) ==
    /\ Len(hist[l].attempts) = Len(loop[l].all_exceptions)
    /\ \A i \in 1..Len(loop[l].all_exceptions) : hist[l].attempts[i] = 1

\* C1: at most one invocation of start_monitoring is inside a scan cycle at
\* any time, whatever the interleaving of start, stop and start again.
C1_SingleActiveLoop == Cardinality({l \in Calls : InCycle(l)}) <= 1

\* C2: an invocation that was running when stop_monitoring was called never
\* enters run_once again.
C2_NoCycleAfterStop ==
    [][\A l \in Calls :
         (hist[l].stopped /\ loop[l].pc = "while") => loop'[l].pc # "run_once"]_vars

\* C3: a cycle during which stop_monitoring ran still evaluated every
\* shipment it fetched, issued the POST of every record it detected exactly
\* once, and built and recorded its statistics: run_once returned them,
\* total_runs and last_run_time were updated, and the row was appended
\* whenever the INSERT succeeded.
C3_InFlightCycleCompletes ==
    \A l \in Calls :
        (Finished(l) /\ hist[l].stop_in_cycle # 0) =>
            /\ loop[l].n = Len(loop[l].shipments) + 1
            /\ AllAttemptedOnce(l)
            /\ Completed(l)
            /\ loop[l].result[1].exceptions_found = Len(loop[l].all_exceptions)
            /\ loop[l].result[1].shipments_checked = Len(loop[l].shipments)
            /\ loop[l].result[1].notifications_sent = hist[l].ok
            /\ total_runs >= 1
            /\ last_run_time = {loop[l].result[1].timestamp}
            /\ hist[l].logged =>
                  /\ db_runs # <<>>
                  /\ db_runs[Len(db_runs)].exceptions_found = Len(loop[l].all_exceptions)
                  /\ db_runs[Len(db_runs)].notifications_sent = hist[l].ok

\* stop_monitoring ran while the first of three POSTs was awaited; the loop
\* has since issued the other two, recorded the cycle and returned.
C3_Witness ==
    \E l \in Calls :
        /\ loop[l].pc = "returned"
        /\ hist[l].stop_in_cycle = 1
        /\ Len(loop[l].all_exceptions) = 3
        /\ AllAttemptedOnce(l)
        /\ hist[l].logged

\* C4: after a cycle that ended in an error the loop sleeps the one-minute
\* cooldown.
C4_ErrorCycleCoolsDown ==
    \A l \in Calls :
        (loop[l].pc = "sleep" /\ Errored(l)) => loop[l].sleep = CooldownSeconds

\* C5 as claimed: a cycle whose fetch found the store unreachable returns
\* statistics with an error field and the loop sleeps the one-minute cooldown.
C5_StoreFailureIsCycleFatal ==
    \A l \in Calls :
        (loop[l].pc = "sleep" /\ hist[l].fetch_failed) =>
            /\ Errored(l)
            /\ loop[l].sleep = CooldownSeconds

\* C5, amended: a cycle whose fetch found the store unreachable completes as
\* a cycle over no shipments: its statistics have no error field and all
\* three counts are 0, and the loop sleeps the configured interval.
C5_StoreFailureIsEmptyCycle ==
    \A l \in Calls :
        (loop[l].pc = "sleep" /\ hist[l].fetch_failed) =>
            /\ Completed(l)
            /\ loop[l].result[1].shipments_checked = 0
            /\ loop[l].result[1].exceptions_found = 0
            /\ loop[l].result[1].notifications_sent = 0
            /\ loop[l].sleep = loop[l].interval_minutes * 60

\* The fetch failed while the table held an active shipment.
C5_Witness ==
    \E l \in Calls :
        /\ loop[l].pc = "sleep"
        /\ hist[l].fetch_failed
        /\ \E i \in 1..Len(db_shipments) : db_shipments[i].status # "delivered"

\* C6: unless stop_monitoring is called, every cycle that is begun comes to
\* its end, and every cycle that has ended is followed by another one (up
\* to the bound on the number of cycles).
C6_CyclesRepeat ==
    \A l \in Calls :
        /\ (loop[l].pc = "run_once") ~> (loop[l].pc = "sleep")
        /\ (loop[l].pc = "sleep") ~>
              (loop[l].pc = "run_once" \/ hist[l].stopped \/ hist[l].cycle >= MaxCycles)

\* A second cycle is begun after a first one that ended in an error (it
\* left total_runs at 0), with no stop in between.
C6_Witness ==
    \E l \in Calls :
        /\ loop[l].pc = "run_once"
        /\ hist[l].cycle = 2
        /\ total_runs = 0
        /\ ~hist[l].stopped

\* C7: while the dispatcher runs, no record's POST has been issued twice and
\* every record before the current one has had its POST issued, whatever the
\* outcomes; when the dispatcher has returned, the POST of every record has
\* been issued exactly once.
C7_EachRecordAttemptedOnce ==
    \A l \in Calls :
        /\ loop[l].pc \in {"post", "await_post"} =>
              /\ Len(hist[l].attempts) = Len(loop[l].all_exceptions)
              /\ \A i \in 1..Len(loop[l].all_exceptions) :
                    /\ hist[l].attempts[i] <= 1
                    /\ i < loop[l].k => hist[l].attempts[i] = 1
        /\ (loop[l].all_exceptions # <<>> /\ (loop[l].pc = "record" \/ Completed(l)))
              => AllAttemptedOnce(l)

\* Three records, two of them answered with a failure, all three attempted.
C7_Witness ==
    \E l \in Calls :
        /\ loop[l].pc = "record"
        /\ Len(loop[l].all_exceptions) = 3
        /\ hist[l].ok = 1
        /\ AllAttemptedOnce(l)

\* C8: the dispatcher's count, and the notifications_sent of the statistics
\* run_once returns and logs, is the number of POSTs that answered 200.
C8_SentCountsStatus200 ==
    \A l \in Calls :
        /\ loop[l].pc = "record" => loop[l].notifications_sent = hist[l].ok
        /\ Finished(l) => loop[l].result[1].notifications_sent = hist[l].ok
        /\ (Finished(l) /\ hist[l].logged) =>
              /\ db_runs # <<>>
              /\ db_runs[Len(db_runs)].notifications_sent = hist[l].ok

\* Three records, one POST not answered 200: the cycle completed with
\* notifications_sent = 2 and its row is in the log.
C8_Witness ==
    \E l \in Calls :
        /\ loop[l].pc = "sleep"
        /\ Completed(l)
        /\ Len(loop[l].all_exceptions) = 3
        /\ hist[l].ok = 2
        /\ loop[l].result[1].notifications_sent = 2
        /\ hist[l].logged
        /\ db_runs[Len(db_runs)].notifications_sent = 2

\* The trigger of the detector `type` holds for a row of the store now.
Holds(row, type) ==
    CASE type = "delay" -> check_delay_exception(row) # <<>>
      [] type = "ml_prediction" -> check_ml_prediction(row) # <<>>
      [] type = "temperature_deviation" ->
            check_temperature_deviation(row, TRUE, db_containers) # <<>>
      [] type = "geofence_violation" -> check_geofence_violation(row) # <<>>
      [] type = "missing_milestone" ->
            check_missing_milestones(row, TRUE, db_milestones, now) # <<>>
      [] OTHER -> FALSE

\* The shipment of `key` is still active and its condition still holds.
Persists(key) ==
    \E i \in 1..Len(db_shipments) :
        /\ db_shipments[i].id = key[1]
        /\ db_shipments[i].status # "delivered"
        /\ Holds(db_shipments[i], key[2])

C10_StatsCountsOrdered ==
    /\ \A l \in Calls :
          loop[l].result # <<>> =>
              /\ loop[l].result[1].exceptions_found >= 0
              /\ loop[l].result[1].shipments_checked >= 0
              /\ loop[l].result[1].notifications_sent >= 0
              /\ loop[l].result[1].notifications_sent <= loop[l].result[1].exceptions_found
    /\ \A r \in 1..Len(db_runs) :
          /\ db_runs[r].exceptions_found >= 0
          /\ db_runs[r].shipments_checked >= 0
          /\ db_runs[r].notifications_sent >= 0
          /\ db_runs[r].notifications_sent <= db_runs[r].exceptions_found

\* Every one of three deliveries succeeded: notifications_sent reaches
\* exceptions_found.
C10_Witness ==
    \E l \in Calls :
        /\ Completed(l)
        /\ loop[l].result[1].exceptions_found = 3
        /\ loop[l].result[1].notifications_sent = 3

----------------------------------------------------------------------------
(* The run recorder and the counters.                                      *)

\* The step ends a cycle of invocation l: run_once returns.
CycleEnds(l) == InCycle(l) /\ ~InCycle(l)'

\* The row _log_run_to_database writes for the statistics `stats`.
RowOf(stats) ==
    [run_timestamp |-> stats.timestamp,
     exceptions_found |-> stats.exceptions_found,
     shipments_checked |-> stats.shipments_checked,
     notifications_sent |-> stats.notifications_sent,
     run_duration_ms |-> stats.duration_ms]

\* C11 as claimed: every scan cycle appends exactly one row, so between
\* cycles the log has as many rows as cycles were run.
C11_OneRowPerCycle ==
    (\A l \in Calls : ~InCycle(l)) => Len(db_runs) = cycles

\* C11, amended: no step modifies or deletes a row of the log; a step that
\* ends a cycle appends exactly one row, that cycle's statistics, when the
\* cycle completed without error and its INSERT succeeded, and none
\* otherwise; no other step appends a row.
C11_LogIsAppendOnly ==
    [][/\ Len(db_runs') >= Len(db_runs)
       /\ SubSeq(db_runs', 1, Len(db_runs)) = db_runs
       /\ \A l \in Calls :
             CycleEnds(l) =>
                 IF Completed(l)' /\ hist'[l].logged
                 THEN db_runs' = Append(db_runs, RowOf(loop'[l].result[1]))
                 ELSE db_runs' = db_runs
       /\ (\A l \in Calls : ~CycleEnds(l)) => db_runs' = db_runs]_vars

\* Two cycles were recorded: the log holds both rows, the earlier one first.
C11_Witness ==
    \E l \in Calls :
        /\ Finished(l)
        /\ hist[l].cycle = 2
        /\ Len(db_runs) = 2
        /\ db_runs[1].run_timestamp < db_runs[2].run_timestamp
        /\ db_runs[2] = RowOf(loop[l].result[1])

\* C12: when the INSERT of a cycle's statistics fails, run_once still
\* returns the statistics of the cycle without an error field, total_runs
\* goes up by one, last_run_time is set to the time of the cycle, and the
\* loop sleeps the configured interval.
C12_PersistenceFailureDoesNotPropagate ==
    [][\A l \in Calls :
         (loop[l].pc = "record" /\ CycleEnds(l) /\ ~hist'[l].logged) =>
             /\ db_runs' = db_runs
             /\ Completed(l)'
             /\ loop'[l].result[1].exceptions_found = Len(loop[l].all_exceptions)
             /\ loop'[l].result[1].shipments_checked = Len(loop[l].shipments)
             /\ loop'[l].result[1].notifications_sent = hist[l].ok
             /\ total_runs' = total_runs + 1
             /\ last_run_time' = {now}
             /\ loop'[l].pc = "sleep"
             /\ loop'[l].sleep = loop[l].interval_minutes * 60]_vars

\* A cycle with findings completed and was counted, and the log is empty.
C12_Witness ==
    \E l \in Calls :
        /\ loop[l].pc = "sleep"
        /\ Completed(l)
        /\ loop[l].result[1].exceptions_found > 0
        /\ ~hist[l].logged
        /\ total_runs = 1
        /\ last_run_time = {loop[l].result[1].timestamp}
        /\ db_runs = <<>>

\* C13 as claimed: between cycles total_runs is the number of cycles run.
C13_TotalRunsCountsCycles ==
    (\A l \in Calls : ~InCycle(l)) => total_runs = cycles

\* C13, amended: total_runs is 0 before the first cycle, never decreases,
\* and goes up by exactly one in the step that ends a cycle without error
\* and in no other step: it counts the cycles completed without error.
C13_TotalRunsCountsCompletedCycles ==
    [][/\ cycles = 0 => total_runs = 0
       /\ total_runs' =
             total_runs + Cardinality({l \in Calls : CycleEnds(l) /\ Completed(l)'})]_vars

\* Two cycles were run, the second ended on the error path: total_runs is 1.
C13_Witness ==
    \E l \in Calls :
        /\ Errored(l)
        /\ hist[l].cycle = 2
        /\ cycles = 2
        /\ total_runs = 1

----------------------------------------------------------------------------
(* The detector battery.                                                   *)

Types ==
    {"delay", "ml_prediction", "temperature_deviation", "geofence_violation",
     "missing_milestone"}
Severities == {"low", "medium", "high"}

\* Invocation l has evaluated every shipment of its cycle, and the cycle
\* has not ended.
Detected(l) ==
    \/ loop[l].pc \in {"post", "await_post", "record"}
    \/ loop[l].pc = "detect" /\ loop[l].n > Len(loop[l].shipments)

\* The trigger condition of the detector `type`, as the specification
\* states it, on shipment s and the tables as they are.
Triggered(s, type) ==
    CASE type = "delay" -> \E d \in s.delay_hours : d > 24
      [] type = "ml_prediction" -> \E c \in s.ml_delay_confidence : c > 70
      [] type = "temperature_deviation" ->
            \E i \in 1..Len(db_containers) :
                /\ db_containers[i].shipment_id = s.id
                /\ db_containers[i].container_type = "reefer"
                /\ \E c \in db_containers[i].current_temp,
                      g \in db_containers[i].target_temp :
                       c - g > 50 \/ g - c > 50
      [] type = "geofence_violation" -> s.geofence_violation
      [] type = "missing_milestone" ->
            \E i \in 1..Len(db_milestones) :
                /\ db_milestones[i].shipment_id = s.id
                /\ db_milestones[i].actual_time = {}
                /\ \E e \in db_milestones[i].expected_time : now - e > 72 * 60
      [] OTHER -> FALSE

\* The records of the cycle's list for the shipment at position j, by type.
Found(l, j, type) ==
    {i \in 1..Len(loop[l].all_exceptions) :
        /\ loop[l].all_exceptions[i].shipment_id = loop[l].shipments[j].id
        /\ loop[l].all_exceptions[i].type = type}

\* Detector `type` gave the shipment at position j one record if its
\* trigger holds and none otherwise.
AsTriggered(l, j, type) ==
    Cardinality(Found(l, j, type))
        = IF Triggered(loop[l].shipments[j], type) THEN 1 ELSE 0

\* C14: a detector that raised on a shipment left no record for it, every
\* other detector that did not raise gave that shipment its record if its
\* trigger holds, and so did the detectors on every later shipment.
C14_RaisingDetectorIsIsolated ==
    \A l \in Calls :
        Detected(l) =>
            \A r \in hist[l].raised :
                /\ Found(l, r[1], r[2]) = {}
                /\ \A type \in Types \ {r[2]} :
                      <<r[1], type>> \notin hist[l].raised => AsTriggered(l, r[1], type)
                /\ \A j \in (r[1] + 1)..Len(loop[l].shipments), type \in Types :
                      <<j, type>> \notin hist[l].raised => AsTriggered(l, j, type)

\* The delay check raised on the first shipment, whose geofence record was
\* still made; on the second the containers query raised, its temperature
\* record is missing and its milestone record was still made.
C14_Witness ==
    \E l \in Calls :
        /\ loop[l].pc = "record"
        /\ Len(loop[l].shipments) = 2
        /\ <<1, "delay">> \in hist[l].raised
        /\ Found(l, 1, "geofence_violation") # {}
        /\ <<2, "temperature_deviation">> \in hist[l].raised
        /\ Triggered(loop[l].shipments[2], "temperature_deviation")
        /\ Found(l, 2, "temperature_deviation") = {}
        /\ Found(l, 2, "missing_milestone") # {}

\* Every record has the id of a shipment of the cycle, the detection time,
\* one of the five types and one of the three severities, and there are at
\* most five records per shipment.
WellFormed(l) ==
    /\ \A i \in 1..Len(loop[l].all_exceptions) :
          LET e == loop[l].all_exceptions[i] IN
          /\ \E j \in 1..Len(loop[l].shipments) : e.shipment_id = loop[l].shipments[j].id
          /\ e.detected_at = now
          /\ e.type \in Types
          /\ e.severity \in Severities
    /\ Len(loop[l].all_exceptions) <= 5 * Len(loop[l].shipments)

\* C15 as claimed: every shipment has exactly one record per detector whose
\* trigger holds and none for the others, and the records are well formed.
C15_OneRecordPerTriggeredDetector ==
    \A l \in Calls :
        Detected(l) =>
            /\ \A j \in 1..Len(loop[l].shipments), type \in Types : AsTriggered(l, j, type)
            /\ WellFormed(l)

\* C15, amended: every shipment has exactly one record per detector whose
\* trigger holds and which did not raise, none for the others, and the
\* records are well formed.
C15_OneRecordPerDetectorThatRan ==
    \A l \in Calls :
        Detected(l) =>
            /\ \A j \in 1..Len(loop[l].shipments), type \in Types :
                  IF <<j, type>> \in hist[l].raised
                  THEN Found(l, j, type) = {}
                  ELSE AsTriggered(l, j, type)
            /\ WellFormed(l)

\* All five detectors fired on one shipment.
C15_Witness ==
    \E l \in Calls :
        /\ loop[l].pc = "record"
        /\ \E j \in 1..Len(loop[l].shipments) :
              \A type \in Types : Cardinality(Found(l, j, type)) = 1

\* The severities of the records of one type of the shipment at position j.
Severity(l, j, type) ==
    {loop[l].all_exceptions[i].severity : i \in Found(l, j, type)}

\* C16: a shipment with delay_hours at most 24, or none, has no delay
\* record; with delay_hours over 24 and at most 48 it has one, of severity
\* medium; with delay_hours over 48 it has one, of severity high.
C16_DelayBands ==
    \A l \in Calls :
        Detected(l) =>
            \A j \in 1..Len(loop[l].shipments) :
                LET s == loop[l].shipments[j] IN
                /\ (s.delay_hours = {} \/ \E d \in s.delay_hours : d <= 24)
                      => Found(l, j, "delay") = {}
                /\ (\E d \in s.delay_hours : d > 24 /\ d <= 48)
                      => /\ Cardinality(Found(l, j, "delay")) = 1
                         /\ Severity(l, j, "delay") = {"medium"}
                /\ (\E d \in s.delay_hours : d > 48)
                      => /\ Cardinality(Found(l, j, "delay")) = 1
                         /\ Severity(l, j, "delay") = {"high"}

\* delay_hours 50 gave one delay record of severity high.
C16_Witness ==
    \E l \in Calls :
        /\ loop[l].pc = "record"
        /\ \E j \in 1..Len(loop[l].shipments) :
              /\ loop[l].shipments[j].delay_hours = {50}
              /\ Cardinality(Found(l, j, "delay")) = 1
              /\ Severity(l, j, "delay") = {"high"}

\* C17: a shipment has an ml_prediction record exactly when its confidence
\* for the delayed outcome is over 0.70, and the record's severity is high
\* exactly when the confidence is over 0.85, medium otherwise.
C17_ConfidenceBands ==
    \A l \in Calls :
        Detected(l) =>
            \A j \in 1..Len(loop[l].shipments) :
                LET s == loop[l].shipments[j] IN
                /\ Cardinality(Found(l, j, "ml_prediction"))
                      = IF \E c \in s.ml_delay_confidence : c > 70 THEN 1 ELSE 0
                /\ Severity(l, j, "ml_prediction")
                      = IF \E c \in s.ml_delay_confidence : c > 85 THEN {"high"}
                        ELSE IF \E c \in s.ml_delay_confidence : c > 70 THEN {"medium"}
                        ELSE {}

\* A confidence of exactly 0.85 gave a record of severity medium.
C17_Witness ==
    \E l \in Calls :
        /\ loop[l].pc = "record"
        /\ \E j \in 1..Len(loop[l].shipments) :
              /\ loop[l].shipments[j].ml_delay_confidence = {85}
              /\ Severity(l, j, "ml_prediction") = {"medium"}

\* C20: a step of the monitor leaves the rows of the shipments, containers
\* and milestones tables as they were, leaves the shipment dictionaries of
\* a cycle as they were fetched, and changes the statistics log, if at
\* all, by appending one row.
C20_DetectorsAreReadOnly ==
    [][(loop' # loop \/ running' # running \/ db_runs' # db_runs) =>
          /\ storeVars' = storeVars
          /\ \A l \in Calls :
                loop[l].pc \in {"detect", "post", "await_post", "record"}
                    => loop'[l].shipments = loop[l].shipments
          /\ \/ db_runs' = db_runs
             \/ /\ Len(db_runs') = Len(db_runs) + 1
                /\ SubSeq(db_runs', 1, Len(db_runs)) = db_runs]_vars

\* A cycle found three exceptions on one shipment and was recorded: the
\* shipments it evaluated are the active rows of the table, which still
\* holds the late shipment it started with.
C20_Witness ==
    \E l \in Calls :
        /\ Completed(l)
        /\ loop[l].pc = "sleep"
        /\ loop[l].result[1].exceptions_found = 3
        /\ Len(db_runs) = 1
        /\ db_shipments = <<LateShipment(1)>>
        /\ loop[l].shipments = db_shipments

----------------------------------------------------------------------------
(* The risk score's escalations.                                           *)

\* C18: when the risk score of a shipment has will_delay false or a
\* confidence under 0.70, proactive_delay_warning sends no warning for it,
\* and a cycle that evaluates the shipment, whose row holds that
\* confidence, makes no ml_prediction record for it.
C18_NoEscalationUnlessDelayPredicted ==
    (warning # <<>> /\ warning[1].ml_prediction_data # <<>>) =>
        LET score == warning[1].ml_prediction_data[1] IN
        (~score.will_delay \/ score.confidence < 70) =>
            /\ ~warning[1].result.warning_sent
            /\ \A l \in Calls :
                  Detected(l) =>
                      \A j \in 1..Len(loop[l].shipments) :
                          (/\ loop[l].shipments[j].id = warning[1].shipment_id
                           /\ loop[l].shipments[j].ml_delay_confidence
                                 = {score.confidence})
                              => Found(l, j, "ml_prediction") = {}

\* C19: once startup_event has failed to load the models, no cycle makes
\* an ml_prediction record.
C19_NoMlFindingWithoutModel ==
    (started /\ delay_predictor = <<>>) =>
        \A l \in Calls :
            Detected(l) =>
                \A j \in 1..Len(loop[l].shipments) : Found(l, j, "ml_prediction") = {}

----------------------------------------------------------------------------
(* The detectors that read the containers and milestones tables.           *)

\* The reefer containers of shipment s that have both temperatures and are
\* more than 5.0 degrees from their target, as positions in the table.
OutOfRange(s) ==
    {i \in 1..Len(db_containers) :
        /\ db_containers[i].shipment_id = s.id
        /\ db_containers[i].container_type = "reefer"
        /\ \E c \in db_containers[i].current_temp, g \in db_containers[i].target_temp :
               c - g > 50 \/ g - c > 50}

\* The temperature records of the shipment at position j are as the claim
\* says: none if no container is out of range, else one, of severity high,
\* for the first container out of range, with its readings and deviation.
TemperatureAsClaimed(l, j) ==
    LET hits == OutOfRange(loop[l].shipments[j])
        found == Found(l, j, "temperature_deviation")
    IN IF hits = {} THEN found = {}
       ELSE /\ Cardinality(found) = 1
            /\ \A i \in found :
                  LET e == loop[l].all_exceptions[i]
                      first == db_containers[Least(hits)]
                  IN /\ e.severity = "high"
                     /\ e.container_id = first.container_id
                     /\ first.current_temp = {e.current_temp}
                     /\ first.target_temp = {e.target_temp}
                     /\ e.deviation = Abs(e.current_temp - e.target_temp)
                     /\ e.deviation > 50

\* C22 as claimed: for every shipment of a cycle the temperature detector
\* fires, with severity high, exactly when a reefer container of the
\* shipment deviates by more than 5.0, and reports the first such container.
C22_TemperatureFiresIffOutOfRange ==
    \A l \in Calls :
        Detected(l) => \A j \in 1..Len(loop[l].shipments) : TemperatureAsClaimed(l, j)

\* C22, amended: the same for every shipment whose containers query
\* succeeded; when the query raised, the detector made no record.
C22_TemperatureFiresIffReadAndOutOfRange ==
    \A l \in Calls :
        Detected(l) =>
            \A j \in 1..Len(loop[l].shipments) :
                IF <<j, "temperature_deviation">> \in hist[l].raised
                THEN Found(l, j, "temperature_deviation") = {}
                ELSE TemperatureAsClaimed(l, j)

\* Of three reefer containers the second, the first one out of range, was
\* reported: -12.0 against -18.0, deviation 6.0.
C22_Witness ==
    \E l \in Calls :
        /\ loop[l].pc = "record"
        /\ \E i \in 1..Len(loop[l].all_exceptions) :
              LET e == loop[l].all_exceptions[i] IN
              /\ e.type = "temperature_deviation"
              /\ e.shipment_id = 1
              /\ e.current_temp = -120
              /\ e.target_temp = -180
              /\ e.deviation = 60
              /\ e.container_id = "RF-2"
              /\ Len(db_containers) = 4

\* The milestones of shipment s not reached and expected more than 72 hours
\* before `clock`, as positions in the table.
Overdue(s, clock) ==
    {i \in 1..Len(db_milestones) :
        /\ db_milestones[i].shipment_id = s.id
        /\ db_milestones[i].actual_time = {}
        /\ \E e \in db_milestones[i].expected_time : clock - e > 72 * 60}

\* The milestone records of the shipment at position j are as the claim
\* says: none if no milestone is overdue, else one, of severity medium,
\* naming an overdue milestone none of which was expected earlier, with
\* the time since it was expected.
MilestoneAsClaimed(l, j) ==
    LET late == Overdue(loop[l].shipments[j], now)
        found == Found(l, j, "missing_milestone")
    IN IF late = {} THEN found = {}
       ELSE /\ Cardinality(found) = 1
            /\ \A i \in found :
                  LET e == loop[l].all_exceptions[i] IN
                  /\ e.severity = "medium"
                  /\ \E m \in late :
                        /\ e.milestone_name = db_milestones[m].milestone_name
                        /\ db_milestones[m].expected_time = {now - e.hours_overdue}
                        /\ \A o \in late :
                              \A x \in db_milestones[o].expected_time :
                                  now - e.hours_overdue <= x

\* C23 as claimed: for every shipment of a cycle the milestone detector
\* fires, with severity medium, exactly when a milestone not reached is
\* more than 72 hours past its expected time, and names the one expected
\* earliest.
C23_MilestoneFiresIffOverdue ==
    \A l \in Calls :
        Detected(l) => \A j \in 1..Len(loop[l].shipments) : MilestoneAsClaimed(l, j)

\* C23, amended: the same for every shipment whose milestones query
\* succeeded; when the query raised, the detector made no record.
C23_MilestoneFiresIffReadAndOverdue ==
    \A l \in Calls :
        Detected(l) =>
            \A j \in 1..Len(loop[l].shipments) :
                IF <<j, "missing_milestone">> \in hist[l].raised
                THEN Found(l, j, "missing_milestone") = {}
                ELSE MilestoneAsClaimed(l, j)

\* Of two overdue milestones the one expected 100 hours ago, second in the
\* table, was named.
C23_Witness ==
    \E l \in Calls :
        /\ loop[l].pc = "record"
        /\ \E i \in 1..Len(loop[l].all_exceptions) :
              LET e == loop[l].all_exceptions[i] IN
              /\ e.type = "missing_milestone"
              /\ e.shipment_id = 1
              /\ Len(db_milestones) = 3
              /\ e.milestone_name = "gate in"
              /\ e.hours_overdue = 6000

----------------------------------------------------------------------------
(* Consecutive cycles.                                                     *)

\* A record without its detection time.
Undated(e) == [f \in DOMAIN e \ {"detected_at"} |-> e[f]]

\* The records of a list, without their detection times, as a set; and
\* those of the types other than missing_milestone.
UndatedSet(list) == {Undated(list[i]) : i \in 1..Len(list)}
UndatedRowFindings(list) ==
    {Undated(list[i]) : i \in {k \in 1..Len(list) : list[k].type # "missing_milestone"}}

\* Invocation l has evaluated every shipment of a cycle that follows
\* another one; no step of the specification writes to the three tables.
SecondScan(l) == Detected(l) /\ hist[l].cycle >= 2

----------------------------------------------------------------------------
(* The risk score.                                                         *)

\* The five rules in their order, and the generic factor.
RiskRules ==
    <<"High-risk shipment flagged",
      "Peak shipping season (higher congestion)",
      "Weekend port operations (slower processing)",
      "Long-haul route (higher delay risk)",
      "Carrier with lower reliability score">>
GenericFactor == "Historical route performance analysis"

\* Rule k triggers on the analysed call a.
RuleTriggers(k, a) ==
    CASE k = 1 -> a.shipment_data.risk_flag
      [] k = 2 -> a.features.seasonal_factor > 8
      [] k = 3 -> a.features.weekday_factor > 3
      [] k = 4 -> a.features.transit_days > 30
      [] OTHER -> a.features.carrier_reliability < 85

\* C24: the risk factors of a call are never empty; they hold the entry of
\* a rule exactly when the rule triggers, each once and in the order of the
\* rules, and nothing else; when no rule triggers they are the generic
\* factor alone.
C24_RiskFactorsRuleBased ==
    analysis # <<>> =>
        LET a == analysis[1]
            rf == a.risk_factors
            triggered == {k \in 1..5 : RuleTriggers(k, a)}
        IN /\ rf # <<>>
           /\ IF triggered = {}
              THEN rf = <<GenericFactor>>
              ELSE /\ Len(rf) = Cardinality(triggered)
                   /\ \A i \in 1..Len(rf) :
                         \E k \in triggered :
                             /\ rf[i] = RiskRules[k]
                             /\ Cardinality({m \in triggered : m < k}) = i - 1

\* With no risk flag, seasonal 0.08, weekday 0.03, 30 transit days and
\* reliability 0.85 no rule triggered: the generic factor alone.
C24_Witness ==
    /\ analysis # <<>>
    /\ analysis[1].risk_factors = <<GenericFactor>>
    /\ ~analysis[1].shipment_data.risk_flag
    /\ analysis[1].features.seasonal_factor = 8
    /\ analysis[1].features.weekday_factor = 3
    /\ analysis[1].features.transit_days = 30
    /\ analysis[1].features.carrier_reliability = 85

BandOf(s) ==
    IF s.will_delay
    THEN IF s.confidence > 8000 THEN "HIGH RISK"
         ELSE IF s.confidence > 6000 THEN "MODERATE RISK"
         ELSE "POSSIBLE DELAY"
    ELSE IF s.confidence > 9000
         THEN "Low delay risk - shipment on track for on-time delivery."
         ELSE "Moderate confidence in on-time delivery - continue monitoring."

\* n is the whole percent nearest to the probability p.
IsPercentOf(n, p) == 100 * n - p <= 50 /\ p - 100 * n <= 50

----------------------------------------------------------------------------
(* The cycle as a whole.                                                   *)

\* The step in which invocation l fetches: the list it gets is empty when
\* the query raised, and otherwise holds each row of the table that is not
\* delivered once, and no other row.
FetchesTheActive(l) ==
    (loop[l].pc = "run_once" /\ loop'[l].pc = "detect") =>
        LET got == loop'[l].shipments
            active == {i \in 1..Len(db_shipments) : db_shipments[i].status # "delivered"}
        IN IF hist'[l].fetch_failed THEN got = <<>>
           ELSE /\ Len(got) = Cardinality(active)
                /\ \A i \in active :
                      Cardinality({k \in 1..Len(got) : got[k] = db_shipments[i]}) = 1
                /\ \A k \in 1..Len(got) : got[k].status # "delivered"

\* A step of the detection loop of invocation l evaluates the next shipment
\* of the list, once: the records it adds are that shipment's.
EvaluatesNext(l) ==
    (loop[l].pc = "detect" /\ loop'[l].n # loop[l].n) =>
        /\ loop[l].n <= Len(loop[l].shipments)
        /\ loop'[l].n = loop[l].n + 1
        /\ Len(loop'[l].all_exceptions) >= Len(loop[l].all_exceptions)
        /\ \A i \in 1..Len(loop'[l].all_exceptions) :
              IF i <= Len(loop[l].all_exceptions)
              THEN loop'[l].all_exceptions[i] = loop[l].all_exceptions[i]
              ELSE loop'[l].all_exceptions[i].shipment_id
                     = loop[l].shipments[loop[l].n].id

\* In the cycle of invocation l every record is of a shipment of the list,
\* none of which was fetched as delivered, and the dispatcher and the
\* recorder run after every shipment of the list was evaluated.
OnlyTheFetched(l) ==
    InCycle(l) =>
        /\ \A k \in 1..Len(loop[l].shipments) : loop[l].shipments[k].status # "delivered"
        /\ \A i \in 1..Len(loop[l].all_exceptions) :
              \E k \in 1..Len(loop[l].shipments) :
                  loop[l].all_exceptions[i].shipment_id = loop[l].shipments[k].id
        /\ loop[l].pc \in {"post", "await_post", "record"}
              => loop[l].n = Len(loop[l].shipments) + 1

\* C26 as claimed: the cycle evaluates the non-delivered shipments the
\* store returned, each once, no record or POST is of a delivered one, and
\* the statistics of every cycle give their number as shipments_checked.
C26_ScansTheActiveAndCountsThem ==
    [][\A l \in Calls :
         /\ FetchesTheActive(l)
         /\ EvaluatesNext(l)
         /\ OnlyTheFetched(l)'
         /\ Finished(l)' =>
               loop'[l].result[1].shipments_checked = Len(loop'[l].shipments)]_vars

\* C26, amended: the same, with shipments_checked giving their number in
\* the statistics of every cycle that completed without error, and 0 in
\* those of a cycle that ended on the error path.
C26_ScansTheActiveAndCountsThemUnlessError ==
    [][\A l \in Calls :
         /\ FetchesTheActive(l)
         /\ EvaluatesNext(l)
         /\ OnlyTheFetched(l)'
         /\ Completed(l)' =>
               loop'[l].result[1].shipments_checked = Len(loop'[l].shipments)
         /\ Errored(l)' => loop'[l].result[1].shipments_checked = 0]_vars

\* Over a delivered shipment with a delay of 30 hours on record and a late
\* one, the cycle checked one shipment and its three records are the late
\* one's.
C26_Witness ==
    \E l \in Calls :
        /\ Completed(l)
        /\ Len(db_shipments) = 2
        /\ db_shipments[1] = DeliveredShipment(1)
        /\ loop[l].result[1].shipments_checked = 1
        /\ Len(loop[l].all_exceptions) = 3
        /\ \A i \in 1..3 : loop[l].all_exceptions[i].shipment_id = 2

\* The dispatcher of invocation l has nothing left to do: there was no
\* record, or the POST of every record was issued once and has ended.
DeliveriesDone(l) ==
    \/ loop[l].all_exceptions = <<>>
    \/ /\ AllAttemptedOnce(l)
       /\ loop[l].k = Len(loop[l].all_exceptions) + 1

\* C27: within a cycle a POST is issued only after every shipment was
\* evaluated, and the list of records is fixed from then on; the row is
\* written and total_runs and last_run_time are set only by the step that
\* ends a cycle whose deliveries have all ended; and an invocation enters
\* a cycle only from its while test, after its cycle before has returned.
C27_DetectThenDeliverThenRecord ==
    [][/\ \A l \in Calls :
             /\ loop'[l].pc \in {"post", "await_post"}
                   => /\ loop'[l].n = Len(loop'[l].shipments) + 1
                      /\ loop[l].pc \in {"detect", "post", "await_post"}
             /\ loop[l].pc \in {"post", "await_post"}
                   => loop'[l].all_exceptions = loop[l].all_exceptions
             /\ (loop'[l].pc = "run_once" /\ loop[l].pc # "run_once")
                   => /\ loop[l].pc = "while"
                      /\ hist[l].cycle = 0 \/ Finished(l)
                      /\ hist'[l].cycle = hist[l].cycle + 1
       /\ (db_runs' # db_runs \/ total_runs' # total_runs
              \/ last_run_time' # last_run_time)
             => \E l \in Calls :
                    /\ loop[l].pc = "record"
                    /\ CycleEnds(l)
                    /\ DeliveriesDone(l)]_vars

\* The second cycle is dispatching its three records after the first was
\* recorded with one of its three deliveries failed.
C27_Witness ==
    \E l \in Calls :
        /\ hist[l].cycle = 2
        /\ loop[l].pc = "await_post"
        /\ loop[l].k = 2
        /\ Len(loop[l].all_exceptions) = 3
        /\ total_runs = 1
        /\ Len(db_runs) = 1
        /\ db_runs[1].notifications_sent = 2

\* C28: every step that ends a cycle leaves statistics with the five
\* fields and puts the loop to sleep for the interval; when the cycle ended
\* on the error path the statistics have an error field and zero counts,
\* and total_runs, last_run_time, the running flag, the log and the three
\* tables are as they were.
C28_ErrorPathOnlyReturns ==
    [][\A l \in Calls :
         CycleEnds(l) =>
             /\ loop'[l].result # <<>>
             /\ {"timestamp", "exceptions_found", "shipments_checked",
                 "notifications_sent", "duration_ms"} \subseteq DOMAIN loop'[l].result[1]
             /\ loop'[l].pc = "sleep"
             /\ loop'[l].sleep = loop[l].interval_minutes * 60
             /\ Errored(l)' =>
                   /\ loop'[l].result[1].exceptions_found = 0
                   /\ loop'[l].result[1].shipments_checked = 0
                   /\ loop'[l].result[1].notifications_sent = 0
                   /\ total_runs' = total_runs
                   /\ last_run_time' = last_run_time
                   /\ running' = running
                   /\ db_runs' = db_runs
                   /\ storeVars' = storeVars]_vars

\* After a first cycle recorded at time 0, the second, five minutes later,
\* found three exceptions and ended on the error path: the counter, the
\* time of the last run and the log are those of the first.
C28_Witness ==
    \E l \in Calls :
        /\ Errored(l)
        /\ hist[l].cycle = 2
        /\ Len(loop[l].all_exceptions) = 3
        /\ now = 5
        /\ total_runs = 1
        /\ last_run_time = {0}
        /\ Len(db_runs) = 1
        /\ db_runs[1].run_timestamp = 0

\* The record at position i of the list of invocation l was POSTed, once.
Posted(l, i) ==
    /\ Len(hist[l].attempts) = Len(loop[l].all_exceptions)
    /\ hist[l].attempts[i] = 1

\* The records of the cycle before whose shipment is still active and
\* whose condition still holds, as positions in its list.
StillHolding(l) ==
    {i \in 1..Len(hist[l].prev_exceptions) : Persists(Key(hist[l].prev_exceptions[i]))}

\* C29 as claimed: when a cycle that follows another has returned, every
\* record of the cycle before whose condition still holds was detected
\* again and POSTed again, although its POST was answered 200 before.
C29_PersistentConditionPostedEveryCycle ==
    \A l \in Calls :
        (Finished(l) /\ hist[l].cycle >= 2) =>
            \A i \in StillHolding(l) :
                \E k \in 1..Len(loop[l].all_exceptions) :
                    /\ Key(loop[l].all_exceptions[k]) = Key(hist[l].prev_exceptions[i])
                    /\ Posted(l, k)

\* C29, amended: the same for a cycle whose reads of the store all
\* succeeded and which completed without error; a record detected again in
\* a cycle that ended on the error path was not POSTed.
C29_PersistentConditionPostedEveryReadableCycle ==
    \A l \in Calls :
        (Finished(l) /\ hist[l].cycle >= 2) =>
            \A i \in StillHolding(l) :
                /\ (hist[l].reads_ok /\ Completed(l)) =>
                      \E k \in 1..Len(loop[l].all_exceptions) :
                          /\ Key(loop[l].all_exceptions[k])
                                = Key(hist[l].prev_exceptions[i])
                          /\ Posted(l, k)
                /\ Errored(l) => hist[l].attempts = <<>>

\* Five records were delivered with 200 in the first cycle and all five
\* were POSTed again in the second: two recorded cycles, ten deliveries.
C29_Witness ==
    \E l \in Calls :
        /\ Completed(l)
        /\ hist[l].cycle = 2
        /\ Len(db_runs) = 2
        /\ db_runs[1].notifications_sent = 5
        /\ db_runs[2].notifications_sent = 5
        /\ Cardinality(StillHolding(l)) = 5
        /\ \A k \in 1..5 : Posted(l, k)

\* The place of a detector in the battery.
Rank(type) ==
    CASE type = "delay" -> 1
      [] type = "ml_prediction" -> 2
      [] type = "temperature_deviation" -> 3
      [] type = "geofence_violation" -> 4
      [] OTHER -> 5

\* The place in the table of the shipment with this id.
RowOfShipment(id) == CHOOSE i \in 1..Len(db_shipments) : db_shipments[i].id = id

\* Record i of the list comes before record j in store order and, within a
\* shipment, in detector order.
Before(e, f) ==
    \/ RowOfShipment(e.shipment_id) < RowOfShipment(f.shipment_id)
    \/ /\ e.shipment_id = f.shipment_id
       /\ Rank(e.type) < Rank(f.type)

\* C30: the list of a cycle is in store order and, within a shipment, in
\* detector order; a POST is issued for the record after the last one whose
\* POST has ended, while no other POST of the cycle is pending and none of
\* a later record has been issued; and a cycle without a record issues no
\* POST and reports notifications_sent = 0.
C30_DeliveriesOneAtATimeInOrder ==
    [][\A l \in Calls :
         /\ \A i, j \in 1..Len(loop'[l].all_exceptions) :
               i < j => Before(loop'[l].all_exceptions[i], loop'[l].all_exceptions[j])
         /\ hist'[l].attempts # hist[l].attempts =>
               \/ /\ loop[l].pc = "detect"
                  /\ loop'[l].pc = "post"
                  /\ loop'[l].k = 1
                  /\ \A i \in 1..Len(hist'[l].attempts) : hist'[l].attempts[i] = 0
               \/ /\ loop[l].pc = "post"
                  /\ loop'[l].pc = "await_post"
                  /\ \A i \in 1..Len(hist'[l].attempts) :
                        hist'[l].attempts[i] = IF i <= loop[l].k THEN 1 ELSE 0
               \/ loop'[l].pc = "run_once"
         /\ (loop[l].pc = "await_post" /\ loop'[l].pc # "await_post") =>
               /\ loop'[l].k = loop[l].k + 1
               /\ hist'[l].attempts = hist[l].attempts
         /\ (Completed(l)' /\ loop'[l].all_exceptions = <<>>) =>
               /\ hist'[l].attempts = <<>>
               /\ hist'[l].ok = 0
               /\ loop'[l].result[1].notifications_sent = 0]_vars

\* The sixth of seven records, the geofence record of the second shipment
\* behind its temperature record, is awaited after three of the first five
\* POSTs failed.
C30_Witness ==
    \E l \in Calls :
        /\ loop[l].pc = "await_post"
        /\ Len(loop[l].all_exceptions) = 7
        /\ loop[l].k = 6
        /\ loop[l].all_exceptions[5].type = "temperature_deviation"
        /\ loop[l].all_exceptions[6].type = "geofence_violation"
        /\ loop[l].all_exceptions[6].shipment_id = 2
        /\ hist[l].ok = 2
        /\ hist[l].attempts = <<1, 1, 1, 1, 1, 1, 0>>

====
